---- MODULE Spec2Model ----
(***************************************************************************)
(* castsmith: the Drive watcher's filename classifier, the single-worker   *)
(* ProcessingQueue with its five-stage pipeline, the EpisodeDataLogger     *)
(* record and the ContentExtractor's parse / fallback path.                *)
(*                                                                         *)
(* File names are sequences of one-character strings, so that the regular  *)
(* expressions of the source are matched character by character.           *)
(***************************************************************************)
EXTENDS Integers, Sequences, FiniteSets, TLC

VARIABLES
    podcastName,   \* process.env.PODCAST_NAME || 'podcast' (contentExtractor.js:16)
    jobs,          \* every queueItem object created so far, in creation order
    queue,         \* ProcessingQueue.queue: indices into jobs
    processing,    \* ProcessingQueue.processing
    loops,         \* the running processQueue invocations, each at an await
    store,         \* ./generated/episode-NN/processing-metadata.json per episode
    fname,         \* classifier harness: the file name under test
    verdict,       \* classifier harness: what the classifier said about fname
    given,         \* function harnesses: the arguments under test
    outcome        \* function harnesses: what has been computed from `given`

vars == <<podcastName, jobs, queue, processing, loops, store, fname, verdict, given, outcome>>

queueVars == <<podcastName, jobs, queue, processing, loops, store>>

classVars == <<fname, verdict>>

harnessVars == <<given, outcome>>

(***************************************************************************)
(* Bounds of the model.                                                    *)
(***************************************************************************)
MaxJobs == 3

MaxTitleLen == 3

MaxUtterances == 3

\* The milliseconds of the watcher's clock.
MaxClock == 3

\* The runs of processItem for one episode number.
MaxRuns == 2

\* pollingTimeout / pollingInterval (300000 / 5000 in the source), scaled down.
PollCeiling == 1

(***************************************************************************)
(* Values standing for JavaScript's null / undefined.                      *)
(***************************************************************************)
Null == -1

NoMsg == "<none>"

Undefined == "<undefined>"

NoFile == <<>>

Truthy(n) == n # Null /\ n # 0

(***************************************************************************)
(* Characters and strings.                                                 *)
(***************************************************************************)
Uppers == <<"A","B","C","D","E","F","G","H","I","J","K","L","M",
            "N","O","P","Q","R","S","T","U","V","W","X","Y","Z">>

Lowers == <<"a","b","c","d","e","f","g","h","i","j","k","l","m",
            "n","o","p","q","r","s","t","u","v","w","x","y","z">>

Digits == <<"0","1","2","3","4","5","6","7","8","9">>

ToLower(c) ==
    IF \E i \in 1..26 : Uppers[i] = c
    THEN Lowers[CHOOSE i \in 1..26 : Uppers[i] = c]
    ELSE c

LowerSeq(s) == [i \in 1..Len(s) |-> ToLower(s[i])]

IsDigit(c) == \E i \in 1..10 : Digits[i] = c

DigitVal(c) == (CHOOSE i \in 1..10 : Digits[i] = c) - 1

\* parseInt of a non-empty run of decimal digits: leading zeros contribute 0.
RECURSIVE ParseInt(_)
ParseInt(ds) ==
    IF Len(ds) = 0 THEN 0
    ELSE 10 * ParseInt(SubSeq(ds, 1, Len(ds) - 1)) + DigitVal(ds[Len(ds)])

\* `s` has the literal `lit` at position p, compared case-insensitively (/i).
HasAtCI(s, p, lit) ==
    /\ p >= 1
    /\ p + Len(lit) - 1 <= Len(s)
    /\ LowerSeq(SubSeq(s, p, p + Len(lit) - 1)) = lit

\* The length of the longest run of digits of s that starts at position p.
DigitRun(s, p) ==
    LET ends == {e \in (p - 1)..Len(s) : \A i \in p..e : IsDigit(s[i])}
    IN  (CHOOSE e \in ends : \A e2 \in ends : e2 <= e) - p + 1

Cosmic == <<"c","o","s","m","i","c">>

Podcast == <<"p","o","d","c","a","s","t">>

Random == <<"r","a","n","d","o","m">>

NoMix == <<"-","n","o","-","m","i","x">>

AudioExts == { <<"m","p","3">>, <<"f","l","a","c">>, <<"w","a","v">>, <<"m","4","a">> }

(***************************************************************************)
(* DriveWatcher.matchesNamingPattern:                                      *)
(*     /^cosmic-\d{2}\.(mp3|flac|wav|m4a)$/i .test(filename)               *)
(***************************************************************************)
matchesNamingPattern(filename) ==
    \E ext \in AudioExts :
        /\ Len(filename) = 6 + 1 + 2 + 1 + Len(ext)
        /\ HasAtCI(filename, 1, Cosmic)
        /\ filename[7] = "-"
        /\ IsDigit(filename[8])
        /\ IsDigit(filename[9])
        /\ filename[10] = "."
        /\ HasAtCI(filename, 11, ext)

(***************************************************************************)
(* ContentExtractor.extract, lines 16-18:                                  *)
(*     filename.match(new RegExp(`${podcastName}-(\\d+)`, 'i'))            *)
(*     episodeNumber = episodeMatch ? parseInt(episodeMatch[1]) : null     *)
(* The search is unanchored: the leftmost place where the name, a hyphen   *)
(* and at least one digit occur; the digit group is greedy.                *)
(***************************************************************************)
extractorEpisodeNumber(name, filename) ==
    LET n    == Len(name)
        hits == {p \in 1..Len(filename) :
                    /\ HasAtCI(filename, p, name)
                    /\ p + n <= Len(filename)
                    /\ filename[p + n] = "-"
                    /\ DigitRun(filename, p + n + 1) >= 1}
    IN  IF hits = {} THEN Null
        ELSE LET p == CHOOSE q \in hits : \A r \in hits : q <= r
                 k == DigitRun(filename, p + n + 1)
             IN  ParseInt(SubSeq(filename, p + n + 1, p + n + k))

(***************************************************************************)
(* DriveWatcher.extractEpisodeNumber is called by processItem (line 72)    *)
(* and is not part of the sources; it is modelled from the classifier's    *)
(* contract: <tag>-<two or more digits>[-no-mix].<ext>, case-insensitive,  *)
(* the episode number being the integer value of the digit group, and      *)
(* null for every other name.                                              *)
(***************************************************************************)
IsCandidateForm(tag, filename) ==
    \E ext \in AudioExts : \E suffix \in {<<>>, NoMix} :
        LET n == Len(tag)
            k == DigitRun(filename, n + 2)
        IN  /\ HasAtCI(filename, 1, tag)
            /\ n + 1 <= Len(filename)
            /\ filename[n + 1] = "-"
            /\ k >= 2
            /\ HasAtCI(filename, n + 2 + k, suffix)
            /\ n + 2 + k + Len(suffix) <= Len(filename)
            /\ filename[n + 2 + k + Len(suffix)] = "."
            /\ HasAtCI(filename, n + 3 + k + Len(suffix), ext)
            /\ Len(filename) = n + 2 + k + Len(suffix) + Len(ext)

CandidateNumber(tag, filename) ==
    ParseInt(SubSeq(filename, Len(tag) + 2, Len(tag) + 1 + DigitRun(filename, Len(tag) + 2)))

IsTranscriptVariant(tag, filename) ==
    /\ IsCandidateForm(tag, filename)
    /\ HasAtCI(filename, Len(tag) + 2 + DigitRun(filename, Len(tag) + 2), NoMix)

extractEpisodeNumber(tag, filename) ==
    IF IsCandidateForm(tag, filename) THEN CandidateNumber(tag, filename) ELSE Null


(***************************************************************************)
(* Number formatting: String(n), padStart(2,'0'), formatDuration.          *)
(***************************************************************************)
RECURSIVE ToChars(_)
ToChars(n) ==
    IF n = Null THEN <<"null">>
    ELSE IF n < 10 THEN <<Digits[n + 1]>>
    ELSE ToChars(n \div 10) \o <<Digits[(n % 10) + 1]>>

Pad2(n) == IF n < 10 THEN <<"0">> \o ToChars(n) ELSE ToChars(n)

\* ContentExtractor.formatDuration(seconds)
formatDuration(seconds) ==
    LET hours   == seconds \div 3600
        minutes == (seconds % 3600) \div 60
        secs    == seconds % 60
    IN  IF hours > 0
        THEN ToChars(hours) \o <<":">> \o Pad2(minutes) \o <<":">> \o Pad2(secs)
        ELSE ToChars(minutes) \o <<":">> \o Pad2(secs)

(***************************************************************************)
(* What JSON.parse can hand to parseExtractedContent.  A value is a record *)
(* of the fields the code reads; an absent or empty list is <<>>, an       *)
(* absent or empty string is <<>> where the code tests truthiness, the     *)
(* absent title is NoTitle, an absent episodeNumber is Absent.  NotJson    *)
(* stands for every text JSON.parse rejects.                               *)
(***************************************************************************)
Absent == -2

NoTitle == <<Undefined>>

Track(artist, title, label, year, link, isNull) ==
    [artist |-> artist, title |-> title, label |-> label, year |-> year,
     youtubeLink |-> link, isNull |-> isNull]

Track1 == Track("A1", "S1", "L1", "2024", "y1", FALSE)

Track2 == Track("A2", "S2", "", "", "", FALSE)

NullTrack == Track("", "", "", "", "", TRUE)

Guest1 == [name |-> "G1", project |-> "P1"]

Event1 == [name |-> "V1", location |-> "Lyon"]

Event2 == [name |-> "V2", location |-> ""]

Json(title, monologue, tracks, events, guests, epNo) ==
    [isJson |-> TRUE, title |-> title, description |-> <<"D">>,
     openingMonologue |-> monologue, tracks |-> tracks, events |-> events,
     guests |-> guests, episodeNumber |-> epNo, duration |-> <<>>]

NotJson == [Json(NoTitle, <<>>, <<>>, <<>>, <<>>, Absent) EXCEPT !.isJson = FALSE]

JsonFull == Json(<<"T">>, <<"M">>, <<Track1, Track2>>, <<Event1, Event2>>, <<Guest1>>, Absent)

JsonMinimal == Json(<<"T">>, <<>>, <<>>, <<>>, <<>>, Absent)

JsonEmptyObject == [Json(NoTitle, <<>>, <<>>, <<>>, <<>>, Absent) EXCEPT !.description = <<Undefined>>]

JsonWithEpisodeNumber == Json(<<"T">>, <<>>, <<Track1>>, <<>>, <<>>, 99)

JsonNullTrack == Json(<<"T">>, <<>>, <<NullTrack>>, <<>>, <<>>, Absent)

ExtractorTexts ==
    {NotJson, JsonFull, JsonMinimal, JsonEmptyObject, JsonWithEpisodeNumber, JsonNullTrack}

(***************************************************************************)
(* ContentExtractor.generateMarkdown: the document as a sequence of text   *)
(* pieces.  It throws (TypeError) when a track entry is null.              *)
(***************************************************************************)
UrlPlaceholder == "TO_BE_REPLACED_WITH_R2_URL"

SizePlaceholder == "TO_BE_CALCULATED"

TitleText(title) == IF title = NoTitle THEN <<"undefined">> ELSE title

RECURSIVE TrackRows(_)
TrackRows(tracks) ==
    IF tracks = <<>> THEN <<>>
    ELSE LET t    == Head(tracks)
             info == IF t.label # "" /\ t.year # "" THEN <<t.label, " - ", t.year>>
                     ELSE IF t.label # "" THEN <<t.label>>
                     ELSE IF t.year # "" THEN <<t.year>>
                     ELSE <<"Original">>
             link == IF t.youtubeLink # "" THEN <<"[ecouter](", t.youtubeLink, ")">>
                     ELSE <<"Lien a verifier">>
         IN  <<"| ", t.artist, " | ", t.title, " | ">> \o info \o <<" | ">> \o link
                 \o <<" |\n">> \o TrackRows(Tail(tracks))

RECURSIVE GuestLines(_)
GuestLines(guests) ==
    IF guests = <<>> THEN <<>>
    ELSE <<"[", Head(guests).name, "](", Head(guests).project, ") Merci encore !!\n\n">>
             \o GuestLines(Tail(guests))

RECURSIVE EventLines(_)
EventLines(events) ==
    IF events = <<>> THEN <<>>
    ELSE <<"- **", Head(events).name, "**">>
             \o (IF Head(events).location # "" THEN <<" - ", Head(events).location>> ELSE <<>>)
             \o <<"\n">> \o EventLines(Tail(events))

generateMarkdownThrows(content) ==
    \E i \in 1..Len(content.tracks) : content.tracks[i].isNull

\* Mutant: the size is written at generation time.
generateMarkdown_SizeResolved(content, pubDate) ==
    <<"---\ntitle: \"">> \o TitleText(content.title)
      \o <<"\"\naudioUrl: \"", UrlPlaceholder, "\"\npubDate: \"", pubDate, "\"\nduration: \"">>
      \o (IF content.duration # <<>> THEN content.duration ELSE <<"0:00:00">>)
      \o <<"\"\nsize: ", "0", "\ncover: \"/images/ep">>
      \o ToChars(content.episodeNumber)
      \o <<".png\"\nexplicit: true\nepisode: ">> \o ToChars(content.episodeNumber)
      \o <<"\nseason: 1\nepisodeType: full\n---\n\n# ">> \o TitleText(content.title)
      \o <<"\n\nAnime par Jerohm\n\n---\n\n">>
      \o (IF content.openingMonologue # <<>>
          THEN <<"## Le monologue de Jerome\n\n> ">> \o content.openingMonologue \o <<"\n\n---\n\n">>
          ELSE <<>>)
      \o content.description \o <<"\n\n">>
      \o (IF Len(content.guests) > 0
          THEN <<"## Guest Mix\n\n">> \o GuestLines(content.guests) ELSE <<>>)
      \o (IF Len(content.tracks) > 0
          THEN <<"## Morceaux mentionnes\n\n| Artiste | Morceau | Info | Lien YouTube |\n">>
                   \o TrackRows(content.tracks) \o <<"\n---\n\n">>
          ELSE <<>>)
      \o (IF Len(content.events) > 0
          THEN <<"## Evenements mentionnes\n\n">> \o EventLines(content.events) ELSE <<>>)

\* Mutant: the guest-mix heading is written whether or not there are guests.
generateMarkdown_GuestHeadingAlways(content, pubDate) ==
    <<"---\ntitle: \"">> \o TitleText(content.title)
      \o <<"\"\naudioUrl: \"", UrlPlaceholder, "\"\npubDate: \"", pubDate, "\"\nduration: \"">>
      \o (IF content.duration # <<>> THEN content.duration ELSE <<"0:00:00">>)
      \o <<"\"\nsize: ", SizePlaceholder, "\ncover: \"/images/ep">>
      \o ToChars(content.episodeNumber)
      \o <<".png\"\nexplicit: true\nepisode: ">> \o ToChars(content.episodeNumber)
      \o <<"\nseason: 1\nepisodeType: full\n---\n\n# ">> \o TitleText(content.title)
      \o <<"\n\nAnime par Jerohm\n\n---\n\n">>
      \o (IF content.openingMonologue # <<>>
          THEN <<"## Le monologue de Jerome\n\n> ">> \o content.openingMonologue \o <<"\n\n---\n\n">>
          ELSE <<>>)
      \o content.description \o <<"\n\n">>
      \o <<"## Guest Mix\n\n">> \o GuestLines(content.guests)
      \o (IF Len(content.tracks) > 0
          THEN <<"## Morceaux mentionnes\n\n| Artiste | Morceau | Info | Lien YouTube |\n">>
                   \o TrackRows(content.tracks) \o <<"\n---\n\n">>
          ELSE <<>>)
      \o (IF Len(content.events) > 0
          THEN <<"## Evenements mentionnes\n\n">> \o EventLines(content.events) ELSE <<>>)

generateMarkdown(content, pubDate) ==
    <<"---\ntitle: \"">> \o TitleText(content.title)
      \o <<"\"\naudioUrl: \"", UrlPlaceholder, "\"\npubDate: \"", pubDate, "\"\nduration: \"">>
      \o (IF content.duration # <<>> THEN content.duration ELSE <<"0:00:00">>)
      \o <<"\"\nsize: ", SizePlaceholder, "\ncover: \"/images/ep">>
      \o ToChars(content.episodeNumber)
      \o <<".png\"\nexplicit: true\nepisode: ">> \o ToChars(content.episodeNumber)
      \o <<"\nseason: 1\nepisodeType: full\n---\n\n# ">> \o TitleText(content.title)
      \o <<"\n\nAnime par Jerohm\n\n---\n\n">>
      \o (IF content.openingMonologue # <<>>
          THEN <<"## Le monologue de Jerome\n\n> ">> \o content.openingMonologue \o <<"\n\n---\n\n">>
          ELSE <<>>)
      \o content.description \o <<"\n\n">>
      \o (IF Len(content.guests) > 0
          THEN <<"## Guest Mix\n\n">> \o GuestLines(content.guests) ELSE <<>>)
      \o (IF Len(content.tracks) > 0
          THEN <<"## Morceaux mentionnes\n\n| Artiste | Morceau | Info | Lien YouTube |\n">>
                   \o TrackRows(content.tracks) \o <<"\n---\n\n">>
          ELSE <<>>)
      \o (IF Len(content.events) > 0
          THEN <<"## Evenements mentionnes\n\n">> \o EventLines(content.events) ELSE <<>>)

(***************************************************************************)
(* ContentExtractor.createFallbackContent and parseExtractedContent.       *)
(***************************************************************************)
FallbackTitle(episodeNumber) ==
    <<"Episode ">> \o ToChars(episodeNumber) \o <<", Cosmic, L'emission">>

FallbackDescription == <<"Prolongement des soirees Cosmic.">>

\* Mutant: the fallback content is built without its markdownContent.
createFallbackContent_NoMarkdown(episodeNumber, transcript, pubDate) ==
    [episodeNumber    |-> episodeNumber,
     title            |-> FallbackTitle(episodeNumber),
     description      |-> FallbackDescription,
     openingMonologue |-> <<>>,
     duration         |-> formatDuration(IF Truthy(transcript.duration) THEN transcript.duration ELSE 0),
     tracks           |-> <<>>,
     events           |-> <<>>,
     guests           |-> <<>>,
     markdownContent  |-> <<>>]

createFallbackContent(episodeNumber, transcript, pubDate) ==
    [episodeNumber    |-> episodeNumber,
     title            |-> FallbackTitle(episodeNumber),
     description      |-> FallbackDescription,
     openingMonologue |-> <<>>,
     duration         |-> formatDuration(IF Truthy(transcript.duration) THEN transcript.duration ELSE 0),
     tracks           |-> <<>>,
     events           |-> <<>>,
     guests           |-> <<>>,
     markdownContent  |->
        <<"---\ntitle: ">> \o FallbackTitle(episodeNumber)
          \o <<"\naudioUrl: \"", UrlPlaceholder, "\"\npubDate: ", pubDate, "\nduration: ">>
          \o formatDuration(IF Truthy(transcript.duration) THEN transcript.duration ELSE 0)
          \o <<"\nsize: ", SizePlaceholder, "\ncover: \"/images/ep">> \o ToChars(episodeNumber)
          \o <<".png\"\nexplicit: true\nepisode: ">> \o ToChars(episodeNumber)
          \o <<"\nseason: 1\nepisodeType: full\n---\n\n# ">> \o FallbackTitle(episodeNumber)
          \o <<"\n\n">> \o FallbackDescription
          \o <<"\n\nTranscription automatique en cours de traitement...\n">>]

\* { episodeNumber, ...parsed, extractedAt, transcriptMetadata }: a field of the
\* parsed object replaces the one written before the spread.
SpreadResult(parsed, episodeNumber) ==
    [episodeNumber    |-> IF parsed.episodeNumber # Absent THEN parsed.episodeNumber
                          ELSE episodeNumber,
     title            |-> parsed.title,
     description      |-> parsed.description,
     openingMonologue |-> parsed.openingMonologue,
     duration         |-> parsed.duration,
     tracks           |-> parsed.tracks,
     events           |-> parsed.events,
     guests           |-> parsed.guests,
     markdownContent  |-> <<>>]

\* Mutant: no fallback, what could be read of the text is returned as it is.
parseExtractedContent_NoFallback(extractedText, episodeNumber, transcript, pubDate) ==
    SpreadResult(extractedText, episodeNumber)

parseExtractedContent(extractedText, episodeNumber, transcript, pubDate) ==
    IF ~extractedText.isJson
    THEN createFallbackContent(episodeNumber, transcript, pubDate)
    ELSE LET result == SpreadResult(extractedText, episodeNumber)
         IN  IF generateMarkdownThrows(result)
             THEN createFallbackContent(episodeNumber, transcript, pubDate)
             ELSE [result EXCEPT !.markdownContent = generateMarkdown(result, pubDate)]

NoContent == SpreadResult(NotJson, Null)


(***************************************************************************)
(* RepoUpdater.createEpisodeFile: the text that is written.  A document is *)
(* a sequence of text pieces; String.prototype.replace with a string       *)
(* pattern replaces the leftmost occurrence only.                          *)
(***************************************************************************)
Occurs(text, piece) == \E i \in 1..Len(text) : text[i] = piece

replaceFirst(text, piece, replacement) ==
    IF ~Occurs(text, piece) THEN text
    ELSE LET i == CHOOSE k \in 1..Len(text) :
                      text[k] = piece /\ \A m \in 1..(k - 1) : text[m] # piece
         IN  SubSeq(text, 1, i - 1) \o replacement \o SubSeq(text, i + 1, Len(text))

\* duration.split(':').map(Number), for a duration written in decimal digits.
RECURSIVE SplitColon(_)
SplitColon(chars) ==
    IF ~Occurs(chars, ":") THEN <<ParseInt(chars)>>
    ELSE LET i == CHOOSE k \in 1..Len(chars) :
                      chars[k] = ":" /\ \A m \in 1..(k - 1) : chars[m] # ":"
         IN  <<ParseInt(SubSeq(chars, 1, i - 1))>> \o SplitColon(SubSeq(chars, i + 1, Len(chars)))

\* Math.round(parseDuration(duration) * 1.2 * 10): the estimated size in tenths
\* of a megabyte.  parseDuration gives minutes: 0 for no duration, h*60+m+s/60
\* for HH:MM:SS, m+s/60 for MM:SS and 60 otherwise; 12*(s/60) = s/5 is never
\* half-way between two integers, so rounding it is (2s + 5) \div 10.
estimatedTenths(duration) ==
    IF duration = <<>> THEN 0
    ELSE LET parts == SplitColon(duration)
         IN  IF Len(parts) = 3
             THEN 720 * parts[1] + 12 * parts[2] + (2 * parts[3] + 5) \div 10
             ELSE IF Len(parts) = 2
             THEN 12 * parts[1] + (2 * parts[2] + 5) \div 10
             ELSE 720

\* estimatedSize.toString() of Math.round(...) / 10
estimatedSize(duration) ==
    LET t == estimatedTenths(duration)
    IN  IF t % 10 = 0 THEN ToChars(t \div 10)
        ELSE ToChars(t \div 10) \o <<".">> \o ToChars(t % 10)

\* createEpisodeFile, lines 66-78: the text handed to fs.writeFile.
createEpisodeFile(extractedContent, uploadedUrls) ==
    LET withUrl == IF uploadedUrls.audioUrl # ""
                   THEN replaceFirst(extractedContent.markdownContent,
                                     "TO_BE_REPLACED_WITH_R2_URL", <<uploadedUrls.audioUrl>>)
                   ELSE extractedContent.markdownContent
    IN  replaceFirst(withUrl, "TO_BE_CALCULATED", estimatedSize(extractedContent.duration))

(***************************************************************************)
(* RepoUpdater.slugify.  A title is a sequence of characters; an accented  *)
(* letter is written as its base letter and the name of its accent, in     *)
(* upper case for the capital letter.                                      *)
(***************************************************************************)
\* The object `accents` of line 138 and, with the same keys, the character
\* class of line 137.
accents ==
    [c \in {"a_grave", "a_circ", "a_uml", "e_grave", "e_acute", "e_circ", "e_uml", "i_uml",
            "i_circ", "o_circ", "u_grave", "u_circ", "u_uml", "y_uml", "c_cedil"} |->
        CASE c \in {"a_grave", "a_circ", "a_uml"} -> "a"
          [] c \in {"e_grave", "e_acute", "e_circ", "e_uml"} -> "e"
          [] c \in {"i_uml", "i_circ"} -> "i"
          [] c = "o_circ" -> "o"
          [] c \in {"u_grave", "u_circ", "u_uml"} -> "u"
          [] c = "y_uml" -> "y"
          [] c = "c_cedil" -> "c"]

\* String.prototype.toLowerCase on the capital accented letters of the model.
UpperAccents == [c \in {"E_ACUTE", "O_UML", "A_GRAVE"} |->
                    CASE c = "E_ACUTE" -> "e_acute"
                      [] c = "O_UML"   -> "o_uml"
                      [] c = "A_GRAVE" -> "a_grave"]

toLowerCase(text) ==
    [i \in 1..Len(text) |-> IF text[i] \in DOMAIN UpperAccents THEN UpperAccents[text[i]]
                            ELSE ToLower(text[i])]

\* .replace(/[...]/g, (match) => accents[match] || match)
foldAccents(text) ==
    [i \in 1..Len(text) |-> IF text[i] \in DOMAIN accents THEN accents[text[i]] ELSE text[i]]

IsSpace(c) == c \in {" ", "\t"}

\* The characters of the class [a-z0-9\s-].
IsSlugChar(c) ==
    \/ \E i \in 1..26 : Lowers[i] = c
    \/ IsDigit(c)
    \/ IsSpace(c)
    \/ c = "-"

\* .replace(/[^a-z0-9\s-]/g, '')
removeSpecial(text) == SelectSeq(text, IsSlugChar)

\* .trim()
RECURSIVE trim(_)
trim(text) ==
    IF text = <<>> THEN text
    ELSE IF IsSpace(Head(text)) THEN trim(Tail(text))
    ELSE IF IsSpace(text[Len(text)]) THEN trim(SubSeq(text, 1, Len(text) - 1))
    ELSE text

\* .replace(/\s+/g, '-')
RECURSIVE spacesToHyphen(_)
spacesToHyphen(text) ==
    IF text = <<>> THEN text
    ELSE IF IsSpace(Head(text))
         THEN IF Len(text) > 1 /\ IsSpace(text[2]) THEN spacesToHyphen(Tail(text))
              ELSE <<"-">> \o spacesToHyphen(Tail(text))
    ELSE <<Head(text)>> \o spacesToHyphen(Tail(text))

\* .replace(/-+/g, '-')
RECURSIVE collapseHyphens(_)
collapseHyphens(text) ==
    IF text = <<>> THEN text
    ELSE IF Head(text) = "-" /\ Len(text) > 1 /\ text[2] = "-" THEN collapseHyphens(Tail(text))
    ELSE <<Head(text)>> \o collapseHyphens(Tail(text))

\* Mutant: the runs of hyphens are collapsed before the spaces become hyphens.
slugify_CollapseBeforeSpaces(text) ==
    spacesToHyphen(collapseHyphens(trim(removeSpecial(foldAccents(toLowerCase(text))))))

\* slugify, lines 134-145.
slugify(text) ==
    collapseHyphens(spacesToHyphen(trim(removeSpecial(foldAccents(toLowerCase(text))))))

(***************************************************************************)
(* The files of the watched Drive folder the detector can see, and the     *)
(* outcomes an external collaborator can have.                             *)
(***************************************************************************)
Name(tag, digits, suffix, ext) == tag \o <<"-">> \o digits \o suffix \o <<".">> \o ext

Cosmic06 == Name(Cosmic, <<"0","6">>, <<>>, <<"m","p","3">>)

Cosmic00 == Name(Cosmic, <<"0","0">>, <<>>, <<"m","p","3">>)

Cosmic06NoMix == Name(Cosmic, <<"0","6">>, NoMix, <<"m","p","3">>)

Cosmic07NoMix == Name(Cosmic, <<"0","7">>, NoMix, <<"f","l","a","c">>)

RandomFile == Name(Random, <<>>, <<"f","i","l","e">>, <<"m","p","3">>)

DriveFiles == {Cosmic06, Cosmic00, Cosmic06NoMix, Cosmic07NoMix, RandomFile}

PodcastNames == {Cosmic, Podcast}

\* error.message of what a collaborator throws; new Error() has the message "".
Messages == {"", "E1"}

TypeErrorMsg == "TypeError"

Transcripts == {[duration |-> Null], [duration |-> 65]}

UploadResults == {[audioUrl |-> "https://r2/audio"], [audioUrl |-> ""]}

NoUpload == [audioUrl |-> "<no upload>"]

Today == "Nov 04, 2026"

Stages == <<"download", "transcription", "extraction", "upload", "repoUpdate">>

StageSet == {Stages[i] : i \in 1..Len(Stages)}

StageIndex(s) == CHOOSE i \in 1..Len(Stages) : Stages[i] = s

(***************************************************************************)
(* EpisodeDataLogger: the consolidated metadata record of each episode.    *)
(* `ok` is whether the file-system calls of the operation succeed; every   *)
(* operation catches its own errors.                                       *)
(***************************************************************************)
Flags == {"download", "transcription", "extraction", "upload", "repository"}

EpisodeNumbers == {n \in {extractEpisodeNumber(t, f) : t \in PodcastNames, f \in DriveFiles} :
                      Truthy(n)}

NoRecord ==
    [episodeNumber |-> Null, status |-> "none", steps |-> [f \in Flags |-> FALSE],
     error |-> NoMsg]

\* getMetadata returns null when the file is absent or unreadable.
getMetadata(st, episodeNumber, ok) ==
    IF ok /\ st[episodeNumber].status # "none" THEN st[episodeNumber] ELSE NoRecord

saveMetadata(st, episodeNumber, metadata, ok) ==
    IF ok THEN [st EXCEPT ![episodeNumber] = metadata] ELSE st

initializeEpisode(st, episodeNumber, ok) ==
    saveMetadata(st, episodeNumber,
                 [episodeNumber |-> episodeNumber, status |-> "processing",
                  steps |-> [f \in Flags |-> FALSE], error |-> NoMsg], ok)

\* Mutant: the record is rebuilt from the step flags instead of being updated.
updateStep_Rebuilds(st, episodeNumber, stepName, ok) ==
    LET metadata == getMetadata(st, episodeNumber, ok)
    IN  IF metadata.status # "none"
        THEN saveMetadata(st, episodeNumber,
                 [NoRecord EXCEPT !.status = metadata.status,
                                  !.steps = [metadata.steps EXCEPT ![stepName] = TRUE]], ok)
        ELSE st

updateStep(st, episodeNumber, stepName, ok) ==
    LET metadata == getMetadata(st, episodeNumber, ok)
    IN  IF metadata.status # "none"
        THEN saveMetadata(st, episodeNumber, [metadata EXCEPT !.steps[stepName] = TRUE], ok)
        ELSE st

\* logRawTranscript, logExtractedContent, logUploadResults, logRepositoryUpdate:
\* the payload files are written, then updateStep; a failed write skips it.
logPayload(st, episodeNumber, stepName, ok) ==
    IF ok THEN updateStep(st, episodeNumber, stepName, ok) ELSE st

\* Mutant: the status argument is ignored, the default 'completed' is written.
finalizeEpisode_DefaultStatus(st, episodeNumber, status, error, ok) ==
    LET metadata == getMetadata(st, episodeNumber, ok)
    IN  IF metadata.status = "none" THEN st
        ELSE saveMetadata(st, episodeNumber,
                 [metadata EXCEPT !.status = "completed",
                                  !.error = IF error # NoMsg /\ error # "" THEN error ELSE @],
                 ok)

finalizeEpisode(st, episodeNumber, status, error, ok) ==
    LET metadata == getMetadata(st, episodeNumber, ok)
    IN  IF metadata.status = "none" THEN st   \* metadata.status = ... throws, caught
        ELSE saveMetadata(st, episodeNumber,
                 [metadata EXCEPT !.status = status,
                                  !.error = IF error # NoMsg /\ error # "" THEN error ELSE @],
                 ok)

(***************************************************************************)
(* ProcessingQueue.  A job is the queueItem object; a loop is one running  *)
(* processQueue invocation, suspended at the await named by its pc.        *)
(***************************************************************************)
NewItem(file) ==
    [file |-> file, status |-> "queued", steps |-> [s \in StageSet |-> "pending"],
     error |-> NoMsg]

NoTranscript == [duration |-> Absent]

\* `extracted` (the text the extraction request returned), `lookup` (what the
\* Drive search of findFullEpisodeFile answered) and `finalized` (how the
\* finalizeEpisode call of this run went) and `persisted` (whether every data
\* logger call of this run has succeeded so far) are kept for the properties
\* only.  `polls` counts the polls of the transcription wait and `scratch` is
\* the set of files the job has put into ./temp.
NewLoop(item, episodeNumber) ==
    [pc |-> "init", item |-> item, ep |-> episodeNumber,
     transcript |-> NoTranscript, extracted |-> NotJson, content |-> NoContent,
     path |-> "none", lookup |-> "none", urls |-> NoUpload, err |-> NoMsg,
     finalized |-> "no", polls |-> 0, scratch |-> {}, persisted |-> TRUE]

\* The locals of processItem that nothing reads any more.
Forget(l) ==
    [l EXCEPT !.transcript = NoTranscript, !.extracted = NotJson, !.content = NoContent,
              !.path = "none", !.urls = NoUpload]

\* A queueItem that processItem has returned from is referenced by nothing: only
\* its terminal status is kept.
Released(status) ==
    [file |-> NoFile, status |-> status, steps |-> [s \in StageSet |-> "released"],
     error |-> NoMsg]

Cfg(js, l) == [jobs |-> js, loop |-> l]

\* The await a stage starts with: the upload stage first looks for the full file.
AwaitOf(s) == IF s = "upload" THEN "findFull" ELSE s

LogPc(s) == CASE s = "download"      -> "logDownload"
              [] s = "transcription" -> "logTranscript"
              [] s = "extraction"    -> "logExtracted"
              [] s = "upload"        -> "logUpload"
              [] s = "repoUpdate"    -> "logRepo"

\* item.steps.<s> = 'in_progress', then the call of the stage's collaborator.
beginStage(c, s) ==
    Cfg([c.jobs EXCEPT ![c.loop.item].steps[s] = "in_progress"],
        [c.loop EXCEPT !.pc = AwaitOf(s)])

\* item.status = 'completed', then finalizeEpisode (if an episode number) or cleanup.
complete(c) ==
    Cfg([c.jobs EXCEPT ![c.loop.item].status = "completed"],
        [Forget(c.loop) EXCEPT !.pc = IF Truthy(c.loop.ep) THEN "finalizeOk" ELSE "cleanup"])

\* Mutant: the transcription block is left out, extraction follows the download.
afterLog_SkipsTranscription(c, s) ==
    IF s = "repoUpdate" THEN complete(c)
    ELSE IF s = "download" THEN beginStage(c, "extraction")
    ELSE beginStage(c, Stages[StageIndex(s) + 1])

\* What follows the data logger's call after stage s.
afterLog(c, s) ==
    IF s = "repoUpdate" THEN complete(c) ELSE beginStage(c, Stages[StageIndex(s) + 1])

\* item.steps.<s> = 'completed', then the data logger (if an episode number).
afterStage(c, s) ==
    LET done == Cfg([c.jobs EXCEPT ![c.loop.item].steps[s] = "completed"], c.loop)
    IN  IF Truthy(c.loop.ep)
        THEN Cfg(done.jobs, [done.loop EXCEPT !.pc = LogPc(s)])
        ELSE afterLog(done, s)

\* Mutant: the catch block rethrows, so the promise processQueue awaits rejects.
catchError_Rethrow(c, msg) ==
    Cfg([c.jobs EXCEPT ![c.loop.item].status = "failed", ![c.loop.item].error = msg],
        [Forget(c.loop) EXCEPT !.err = msg, !.pc = "rejected"])

\* Mutant: the catch block puts the steps of the failed job back to 'pending'.
catchError_ResetsSteps(c, msg) ==
    Cfg([c.jobs EXCEPT ![c.loop.item].status = "failed", ![c.loop.item].error = msg,
                       ![c.loop.item].steps = [s \in StageSet |-> "pending"]],
        [Forget(c.loop) EXCEPT !.err = msg,
                               !.pc = IF Truthy(c.loop.ep) THEN "finalizeFail" ELSE "return"])

\* The catch block of processItem (lines 146-154).
catchError(c, msg) ==
    Cfg([c.jobs EXCEPT ![c.loop.item].status = "failed", ![c.loop.item].error = msg],
        [Forget(c.loop) EXCEPT !.err = msg,
                               !.pc = IF Truthy(c.loop.ep) THEN "finalizeFail" ELSE "return"])

\* processItem from its first line to its first await (lines 64-84).
startItem(js, i, tag) ==
    LET ep == extractEpisodeNumber(tag, js[i].file)
        c  == Cfg([js EXCEPT ![i].status = "processing"], NewLoop(i, ep))
    IN  IF Truthy(ep) THEN c ELSE beginStage(c, "download")

\* Mutant: queue.pop() in place of queue.shift().
dequeue_Pop(q) == [item |-> q[Len(q)], rest |-> SubSeq(q, 1, Len(q) - 1)]

\* Mutant: the head of the queue is read and left in the queue.
dequeue_Peek(q) == [item |-> Head(q), rest |-> q]

\* queue.shift()
dequeue(q) == [item |-> Head(q), rest |-> Tail(q)]

QState(js, q, p, ls) == [jobs |-> js, queue |-> q, processing |-> p, loops |-> ls]

\* Mutant: processQueue without `this.processing = true`.
processQueue_FlagNotSet(st, tag) ==
    IF st.processing \/ Len(st.queue) = 0 THEN st
    ELSE LET d == dequeue(st.queue)
             c == startItem(st.jobs, d.item, tag)
         IN  QState(c.jobs, d.rest, st.processing, st.loops \cup {c.loop})

\* processQueue from its first line to its first await (lines 47-57).
processQueue(st, tag) ==
    IF st.processing \/ Len(st.queue) = 0 THEN st
    ELSE LET d == dequeue(st.queue)
             c == startItem(st.jobs, d.item, tag)
         IN  QState(c.jobs, d.rest, TRUE, st.loops \cup {c.loop})

\* Mutant: queue.unshift(queueItem) in place of queue.push(queueItem).
addToQueue_Unshift(st, file, tag) ==
    LET pushed == [st EXCEPT !.jobs = Append(st.jobs, NewItem(file)),
                             !.queue = <<Len(st.jobs) + 1>> \o st.queue]
    IN  IF ~pushed.processing THEN processQueue(pushed, tag) ELSE pushed

\* addToQueue (lines 20-45).
addToQueue(st, file, tag) ==
    LET pushed == [st EXCEPT !.jobs = Append(st.jobs, NewItem(file)),
                             !.queue = Append(st.queue, Len(st.jobs) + 1)]
    IN  IF ~pushed.processing THEN processQueue(pushed, tag) ELSE pushed


\* getStatus (lines 220-232): the length of this.queue, the flag, and one
\* snapshot per element of this.queue, in queue order.
getStatus(st) ==
    [queueLength |-> Len(st.queue),
     processing  |-> st.processing,
     items       |-> [i \in 1..Len(st.queue) |->
                        [id       |-> st.queue[i],
                         filename |-> st.jobs[st.queue[i]].file,
                         status   |-> st.jobs[st.queue[i]].status,
                         steps    |-> st.jobs[st.queue[i]].steps]]]

\* index.js line 18: `const processingQueue = new ProcessingQueue()`, a second
\* queue object.  Nothing in the sources calls its addToQueue; the watcher
\* enqueues into the object it constructs itself (driveWatcher.js line 11).
indexQueue == QState(<<>>, <<>>, FALSE, {})

\* GET /status (index.js lines 30-37): the `queue` field of the response.
StatusEndpoint == getStatus(indexQueue)

(***************************************************************************)
(* The state machine.                                                      *)
(***************************************************************************)
QueueInit ==
    /\ podcastName \in PodcastNames
    /\ jobs = <<>>
    /\ queue = <<>>
    /\ processing = FALSE
    /\ loops = {}
    /\ store = [n \in EpisodeNumbers |-> NoRecord]

Unclassified == [state |-> "unclassified", accepted |-> FALSE, episodeNumber |-> Null]

NoArguments == <<>>

NoOutcome == [state |-> "none"]

Init ==
    /\ QueueInit
    /\ fname = NoFile
    /\ verdict = Unclassified
    /\ given = NoArguments
    /\ outcome = NoOutcome

Here == QState(jobs, queue, processing, loops)

Become(st) ==
    /\ jobs' = st.jobs
    /\ queue' = st.queue
    /\ processing' = st.processing
    /\ loops' = st.loops

\* The loop l goes on as c.loop, the jobs as c.jobs.
Resume(l, c) ==
    /\ jobs' = c.jobs
    /\ loops' = (loops \ {l}) \cup {c.loop}
    /\ UNCHANGED <<queue, processing>>

At(l) == Cfg(jobs, l)

\* The loop after a data logger call that went well (ok) or was caught.
Logged(l, ok) == Cfg(jobs, [l EXCEPT !.persisted = @ /\ ok])


\* checkForNewFiles, for one listed file that is newer than the last check
\* (driveWatcher.js lines 66-77).
Detect(f) ==
    /\ Len(jobs) < MaxJobs
    /\ IF matchesNamingPattern(f)
       THEN Become(addToQueue(Here, f, podcastName))
       ELSE UNCHANGED <<jobs, queue, processing, loops>>
    /\ UNCHANGED <<podcastName, store, fname, verdict, given, outcome>>

\* await this.dataLogger.initializeEpisode(...), then step 1 begins.
InitEpisode(l) ==
    /\ l.pc = "init"
    /\ \E ok \in BOOLEAN :
        /\ store' = initializeEpisode(store, l.ep, ok)
        /\ Resume(l, beginStage(Logged(l, ok), "download"))
    /\ UNCHANGED <<podcastName, fname, verdict, given, outcome>>

\* await this.downloadFile(item.file)
Download(l) ==
    /\ l.pc = "download"
    /\ \/ Resume(l, afterStage(Cfg(jobs, [l EXCEPT !.path = "transcript",
                                                     !.scratch = {"transcript"}]), "download"))
       \/ \E m \in Messages : Resume(l, catchError(At(l), m))
    /\ UNCHANGED <<podcastName, store, fname, verdict, given, outcome>>

LogDownload(l) ==
    /\ l.pc = "logDownload"
    /\ \E ok \in BOOLEAN :
        /\ store' = updateStep(store, l.ep, "download", ok)
        /\ Resume(l, afterLog(Logged(l, ok), "download"))
    /\ UNCHANGED <<podcastName, fname, verdict, given, outcome>>

\* await this.transcriptionService.transcribe(localPath)
\* The messages of the errors transcribe makes itself are not empty:
\* 'Polling timeout' when waitUntilReady gives up after pollingTimeout, and
\* `Transcription failed: ...` for a transcript with status 'error' (line 44).
OwnMessages == Messages \ {""}

\* Mutant: waitUntilReady without its pollingTimeout, it polls for ever.
Transcribe_NoPollingTimeout(l) ==
    /\ l.pc = "transcription"
    /\ \/ \E t \in Transcripts :
            Resume(l, afterStage(Cfg(jobs, [l EXCEPT !.transcript = t, !.polls = 0]),
                                 "transcription"))
       \/ Resume(l, Cfg(jobs, [l EXCEPT !.polls = @ + 1]))
       \/ \E m \in Messages : Resume(l, catchError(Cfg(jobs, [l EXCEPT !.polls = 0]), m))
    /\ UNCHANGED <<podcastName, store, fname, verdict, given, outcome>>

\* await this.transcriptionService.transcribe(localPath), one answer of the
\* speech-to-text service at a time: the transcript is ready; it is not ready
\* yet and is polled again after pollingInterval; it is not ready and
\* pollingTimeout is over; it has status 'error'; or a request throws.
Transcribe(l) ==
    /\ l.pc = "transcription"
    /\ \/ \E t \in Transcripts :
            Resume(l, afterStage(Cfg(jobs, [l EXCEPT !.transcript = t, !.polls = 0]),
                                 "transcription"))
       \/ /\ l.polls < PollCeiling
          /\ Resume(l, Cfg(jobs, [l EXCEPT !.polls = @ + 1]))
       \/ /\ l.polls = PollCeiling
          /\ \E m \in OwnMessages :
                Resume(l, catchError(Cfg(jobs, [l EXCEPT !.polls = 0]), m))
       \/ \E m \in OwnMessages : Resume(l, catchError(Cfg(jobs, [l EXCEPT !.polls = 0]), m))
       \/ \E m \in Messages : Resume(l, catchError(Cfg(jobs, [l EXCEPT !.polls = 0]), m))
    /\ UNCHANGED <<podcastName, store, fname, verdict, given, outcome>>

\* Mutant: logRawTranscript without its try/catch, a failed write is thrown.
LogTranscript_Throws(l) ==
    /\ l.pc = "logTranscript"
    /\ \E ok \in BOOLEAN :
        /\ store' = logPayload(store, l.ep, "transcription", ok)
        /\ IF ok THEN Resume(l, afterLog(Logged(l, ok), "transcription"))
                 ELSE Resume(l, catchError(Logged(l, ok), "E1"))
    /\ UNCHANGED <<podcastName, fname, verdict, given, outcome>>

LogTranscript(l) ==
    /\ l.pc = "logTranscript"
    /\ \E ok \in BOOLEAN :
        /\ store' = logPayload(store, l.ep, "transcription", ok)
        /\ Resume(l, afterLog(Logged(l, ok), "transcription"))
    /\ UNCHANGED <<podcastName, fname, verdict, given, outcome>>

\* ContentExtractor.extract (lines 11-42): the request throws, and extract
\* rethrows, or it returns a text that parseExtractedContent turns into content.
extract(c, text, tag) ==
    afterStage(
        Cfg(c.jobs,
            [c.loop EXCEPT
                !.transcript = NoTranscript,
                !.extracted = text,
                !.content = parseExtractedContent(
                                text,
                                extractorEpisodeNumber(tag, c.jobs[c.loop.item].file),
                                c.loop.transcript, Today)]),
        "extraction")

Extract(l) ==
    /\ l.pc = "extraction"
    /\ \/ \E text \in ExtractorTexts : Resume(l, extract(At(l), text, podcastName))
       \/ \E m \in Messages : Resume(l, catchError(At(l), m))
    /\ UNCHANGED <<podcastName, store, fname, verdict, given, outcome>>

LogExtracted(l) ==
    /\ l.pc = "logExtracted"
    /\ \E ok \in BOOLEAN :
        /\ store' = logPayload(store, l.ep, "extraction", ok)
        /\ Resume(l, afterLog(Logged(l, ok), "extraction"))
    /\ UNCHANGED <<podcastName, fname, verdict, given, outcome>>

\* findFullEpisodeFile (lines 157-194).  The Drive search for baseFilename
\* answers with a file, with none, or throws.  A file found is downloaded; when
\* that download throws, when no file is found and when the search throws, the
\* transcript file is downloaded again, and this download may throw as well.
\* findFullEpisodeFile line 160: transcriptFile.name.replace('-no-mix', '').
\* String.prototype.replace with a string pattern removes the leftmost exact
\* (case-sensitive) occurrence and leaves a name without one as it is.
baseFilename(name) ==
    LET hits == {p \in 1..Len(name) :
                    /\ p + Len(NoMix) - 1 <= Len(name)
                    /\ SubSeq(name, p, p + Len(NoMix) - 1) = NoMix}
    IN  IF hits = {} THEN name
        ELSE LET p == CHOOSE q \in hits : \A r \in hits : q <= r
             IN  SubSeq(name, 1, p - 1) \o SubSeq(name, p + Len(NoMix), Len(name))

LookupAnswers == {"found", "notFound", "error"}

\* The file in ./temp that fullEpisodePath names (line 181): the search is by
\* name in the watched folder, so for a job whose file name has no '-no-mix'
\* in it the file found is the job's own and the path is the one the Download
\* stage wrote to; otherwise it is a second file.
fullEpisodePath(c) ==
    LET name == c.jobs[c.loop.item].file
    IN  IF baseFilename(name) = name THEN "transcript" ELSE "full"

findFullEpisodeFile(c, answer, fullDownloaded) ==
    Cfg(c.jobs,
        [c.loop EXCEPT !.lookup = answer,
                       !.path = IF answer = "found" /\ fullDownloaded THEN "full"
                                ELSE "transcript",
                       !.scratch = IF answer = "found" /\ fullDownloaded
                                   THEN @ \cup {fullEpisodePath(c)} ELSE @,
                       !.extracted = NotJson,
                       !.pc = "uploadFiles"])

\* await this.findFullEpisodeFile(item.file, ...): the path of the full file;
\* the path of the transcript file, which downloadFile fetches once more
\* after a full file that was not found, a download of it that failed, or a
\* search that threw; or the error of that last download of the transcript
\* file, which the catch block of findFullEpisodeFile does not catch.
FindFull(l) ==
    /\ l.pc = "findFull"
    /\ \E answer \in LookupAnswers :
          \/ answer = "found" /\ Resume(l, findFullEpisodeFile(At(l), answer, TRUE))
          \/ Resume(l, findFullEpisodeFile(At(l), answer, FALSE))
          \/ \E m \in Messages : Resume(l, catchError(Cfg(jobs, [l EXCEPT !.lookup = answer]), m))
    /\ UNCHANGED <<podcastName, store, fname, verdict, given, outcome>>

\* await this.storageService.uploadFiles(fullEpisodePath, extractedContent.episodeNumber)
UploadFiles(l) ==
    /\ l.pc = "uploadFiles"
    /\ \/ \E u \in UploadResults :
            Resume(l, afterStage(Cfg(jobs, [l EXCEPT !.urls = u, !.path = "none",
                                                     !.lookup = "none"]), "upload"))
       \/ \E m \in Messages : Resume(l, catchError(At(l), m))
    /\ UNCHANGED <<podcastName, store, fname, verdict, given, outcome>>

LogUpload(l) ==
    /\ l.pc = "logUpload"
    /\ \E ok \in BOOLEAN :
        /\ store' = logPayload(store, l.ep, "upload", ok)
        /\ Resume(l, afterLog(Logged(l, ok), "upload"))
    /\ UNCHANGED <<podcastName, fname, verdict, given, outcome>>

\* RepoUpdater.createEpisodeFile throws a TypeError on episodeNumber.toString()
\* of null and on slugify of an undefined title.
updateRepoThrows(content) == content.episodeNumber = Null \/ content.title = NoTitle

\* await this.repoUpdater.updateRepo(extractedContent, uploadedUrls)
UpdateRepo(l) ==
    /\ l.pc = "repoUpdate"
    /\ \/ /\ ~updateRepoThrows(l.content)
          /\ Resume(l, afterStage(At(l), "repoUpdate"))
       \/ /\ updateRepoThrows(l.content)
          /\ Resume(l, catchError(At(l), TypeErrorMsg))
       \/ \E m \in Messages : Resume(l, catchError(At(l), m))
    /\ UNCHANGED <<podcastName, store, fname, verdict, given, outcome>>

LogRepo(l) ==
    /\ l.pc = "logRepo"
    /\ \E ok \in BOOLEAN :
        /\ store' = logPayload(store, l.ep, "repository", ok)
        /\ Resume(l, afterLog(Logged(l, ok), "repoUpdate"))
    /\ UNCHANGED <<podcastName, fname, verdict, given, outcome>>

\* await this.dataLogger.finalizeEpisode(episodeNumber, 'completed')
FinalizeOk(l) ==
    /\ l.pc = "finalizeOk"
    /\ \E ok \in BOOLEAN :
        /\ store' = finalizeEpisode(store, l.ep, "completed", NoMsg, ok)
        /\ Resume(l, Cfg(jobs, [l EXCEPT !.pc = "cleanup", !.finalized = IF ok THEN "ok" ELSE "io_error",
                                      !.persisted = @ /\ ok]))
    /\ UNCHANGED <<podcastName, fname, verdict, given, outcome>>

\* cleanup(filePath) (lines 210-218): the path is logged; the unlink is
\* commented out, so the files of ./temp are what they were, and nothing in
\* the try block can throw.
cleanup(files, filePath) == files

\* await this.cleanup(localPath), with the path the Download stage returned;
\* the success path of processItem only (line 144).
Cleanup(l) ==
    /\ l.pc = "cleanup"
    /\ Resume(l, Cfg(jobs, [l EXCEPT !.pc = "return",
                                     !.scratch = cleanup(@, "transcript")]))
    /\ UNCHANGED <<podcastName, store, fname, verdict, given, outcome>>

\* await this.dataLogger.finalizeEpisode(episodeNumber, 'failed', error.message)
FinalizeFail(l) ==
    /\ l.pc = "finalizeFail"
    /\ \E ok \in BOOLEAN :
        /\ store' = finalizeEpisode(store, l.ep, "failed", l.err, ok)
        /\ Resume(l, Cfg(jobs, [l EXCEPT !.pc = "return", !.finalized = IF ok THEN "ok" ELSE "io_error",
                                      !.persisted = @ /\ ok]))
    /\ UNCHANGED <<podcastName, fname, verdict, given, outcome>>

\* Mutant: processQueue ends after the item it has processed, whatever is queued.
loopAgain_LeavesQueue(st, l, tag) ==
    LET js == [st.jobs EXCEPT ![l.item] = Released(@.status)]
    IN  QState(js, st.queue, FALSE, st.loops \ {l})

\* processItem has returned: the while loop of processQueue (lines 55-61).
loopAgain(st, l, tag) ==
    LET js == [st.jobs EXCEPT ![l.item] = Released(@.status)]
    IN  IF Len(st.queue) > 0
        THEN LET d == dequeue(st.queue)
                 c == startItem(js, d.item, tag)
             IN  QState(c.jobs, d.rest, st.processing, (st.loops \ {l}) \cup {c.loop})
        ELSE QState(js, st.queue, FALSE, st.loops \ {l})

Return(l) ==
    /\ l.pc = "return"
    /\ Become(loopAgain(Here, l, podcastName))
    /\ UNCHANGED <<podcastName, store, fname, verdict, given, outcome>>

WorkerStep(l) ==
    \/ InitEpisode(l)
    \/ Download(l)
    \/ LogDownload(l)
    \/ Transcribe(l)
    \/ LogTranscript(l)
    \/ Extract(l)
    \/ LogExtracted(l)
    \/ FindFull(l)
    \/ UploadFiles(l)
    \/ LogUpload(l)
    \/ UpdateRepo(l)
    \/ LogRepo(l)
    \/ FinalizeOk(l)
    \/ Cleanup(l)
    \/ FinalizeFail(l)
    \/ Return(l)

Worker == \E l \in loops : WorkerStep(l)

Next ==
    \/ \E f \in DriveFiles : Detect(f)
    \/ Worker

Spec == Init /\ [][Next]_vars

\* The awaits of processItem and the loop test of processQueue: the points a
\* run of processQueue can be suspended at.
Continuations ==
    {"init", "download", "logDownload", "transcription", "logTranscript", "extraction",
     "logExtracted", "findFull", "uploadFiles", "logUpload", "repoUpdate", "logRepo",
     "finalizeOk", "cleanup", "finalizeFail", "return"}

\* Worker can step exactly when a run of processQueue is suspended at one of
\* its continuations: each WorkerStep disjunct is guarded by the pc alone, its
\* outcomes are drawn from non-empty sets, and it changes loops.
WorkerEnabled == \E l \in loops : l.pc \in Continuations

\* Every collaborator call returns or fails, and the event loop then runs the
\* continuation that awaits it: weak fairness of Worker, WF_vars(Worker),
\* written out with WorkerEnabled for ENABLED <<Worker>>_vars.
FairSpec == Spec /\ ([]<>(~WorkerEnabled) \/ []<><<Worker>>_vars)

(***************************************************************************)
(* The queue on its own: addToQueue is called with either variant of an    *)
(* episode's file, as a caller that follows the documented naming          *)
(* convention would (a transcript file <tag>-NN-no-mix.<ext> next to the   *)
(* full file <tag>-NN.<ext>).                                              *)
(***************************************************************************)
QueueFiles == {Cosmic06NoMix, Cosmic06}

Enqueue(f) ==
    /\ Len(jobs) < MaxJobs
    /\ Become(addToQueue(Here, f, podcastName))
    /\ UNCHANGED <<podcastName, store, fname, verdict, given, outcome>>

QueueNext ==
    \/ \E f \in QueueFiles : Enqueue(f)
    \/ Worker

QueueSpec == Init /\ [][QueueNext]_vars


(***************************************************************************)
(* The classifier on its own: a file name is drawn, then classified as the *)
(* detector and the extractor classify it.                                 *)
(***************************************************************************)
(* Generation and publication of one document on their own: the text the   *)
(* extraction request returned is parsed (ContentExtractor) and the        *)
(* content is handed to RepoUpdater.updateRepo with an upload result.      *)
(* `outcome.pc` is the next call; `outcome.calls` lists the git calls made.*)
(***************************************************************************)
\* An extractor answer whose title is the text of a placeholder.
JsonPlaceholderTitle == Json(<<SizePlaceholder>>, <<>>, <<>>, <<>>, <<>>, Absent)

Guest2 == [name |-> "G2", project |-> "P2"]

\* Answers with one kind of section each.
JsonGuestsOnly == Json(<<"T">>, <<>>, <<>>, <<>>, <<Guest2, Guest1>>, Absent)

JsonEventsOnly == Json(<<"T">>, <<>>, <<>>, <<Event2, Event1>>, <<>>, Absent)

JsonMonologueOnly == Json(<<"T">>, <<"M">>, <<>>, <<>>, <<>>, Absent)

PublishTexts ==
    ExtractorTexts \cup {JsonPlaceholderTitle, JsonGuestsOnly, JsonEventsOnly, JsonMonologueOnly}

PublishEpisodes == {6, 0, Null}

Tomorrow == "Nov 05, 2026"

Dates == {Today, Tomorrow}

NotWritten == <<"<not written>">>

PublishInit ==
    /\ QueueInit
    /\ fname = NoFile
    /\ verdict = Unclassified
    /\ given \in [text : PublishTexts, episodeNumber : PublishEpisodes,
                  transcript : Transcripts, uploadedUrls : UploadResults]
    /\ outcome = NoOutcome

\* parseExtractedContent(extractedText, episodeNumber, transcript) on day d.
Generate ==
    /\ outcome.state = "none"
    /\ \E d \in Dates :
          outcome' = [state   |-> "generated",
                      pc      |-> "ensureRepo",
                      date    |-> d,
                      content |-> parseExtractedContent(given.text, given.episodeNumber,
                                                        given.transcript, d),
                      again   |-> NotWritten,
                      written |-> NotWritten,
                      pending |-> "unknown",
                      calls   |-> <<>>]
    /\ UNCHANGED <<queueVars, classVars, given>>

\* The same call once more, on a day of its own, before anything is published.
GenerateAgain ==
    /\ outcome.state = "generated"
    /\ outcome.pc = "ensureRepo"
    /\ outcome.again = NotWritten
    /\ \E d \in Dates :
          outcome' = [outcome EXCEPT !.again =
                         parseExtractedContent(given.text, given.episodeNumber,
                                               given.transcript, d).markdownContent]
    /\ UNCHANGED <<queueVars, classVars, given>>

Thrown == [outcome EXCEPT !.pc = "thrown"]

\* await this.ensureRepo()
EnsureRepo ==
    /\ outcome.state = "generated"
    /\ outcome.pc = "ensureRepo"
    /\ \/ outcome' = [outcome EXCEPT !.pc = "createEpisodeFile"]
       \/ outcome' = Thrown
    /\ UNCHANGED <<queueVars, classVars, given>>

\* await this.createEpisodeFile(extractedContent, uploadedUrls)
CreateEpisodeFile ==
    /\ outcome.state = "generated"
    /\ outcome.pc = "createEpisodeFile"
    /\ \/ /\ ~updateRepoThrows(outcome.content)
          /\ outcome' = [outcome EXCEPT
                            !.written = createEpisodeFile(outcome.content, given.uploadedUrls),
                            !.pc = "gitAdd"]
       \/ outcome' = Thrown
    /\ UNCHANGED <<queueVars, classVars, given>>

Called(name) == [outcome EXCEPT !.calls = Append(@, name)]

\* await this.git.add('.')
GitAdd ==
    /\ outcome.state = "generated"
    /\ outcome.pc = "gitAdd"
    /\ \/ outcome' = [Called("add") EXCEPT !.pc = "gitStatus"]
       \/ outcome' = [Called("add") EXCEPT !.pc = "thrown"]
    /\ UNCHANGED <<queueVars, classVars, given>>

\* Mutant: the commit is made whatever the status shows.
GitStatus_AlwaysCommits ==
    /\ outcome.state = "generated"
    /\ outcome.pc = "gitStatus"
    /\ \/ \E pending \in BOOLEAN :
            outcome' = [Called("status") EXCEPT !.pending = IF pending THEN "yes" ELSE "no",
                                                !.pc = "gitCommit"]
       \/ outcome' = [Called("status") EXCEPT !.pc = "thrown"]
    /\ UNCHANGED <<queueVars, classVars, given>>

\* const status = await this.git.status(); if (status.files.length === 0) return
GitStatus ==
    /\ outcome.state = "generated"
    /\ outcome.pc = "gitStatus"
    /\ \/ \E pending \in BOOLEAN :
            outcome' = [Called("status") EXCEPT !.pending = IF pending THEN "yes" ELSE "no",
                                                !.pc = IF pending THEN "gitCommit" ELSE "updated"]
       \/ outcome' = [Called("status") EXCEPT !.pc = "thrown"]
    /\ UNCHANGED <<queueVars, classVars, given>>

\* await this.git.commit(commitMessage)
GitCommit ==
    /\ outcome.state = "generated"
    /\ outcome.pc = "gitCommit"
    /\ \/ outcome' = [Called("commit") EXCEPT !.pc = "gitPush"]
       \/ outcome' = [Called("commit") EXCEPT !.pc = "thrown"]
    /\ UNCHANGED <<queueVars, classVars, given>>

\* await this.git.push('origin', 'main')
GitPush ==
    /\ outcome.state = "generated"
    /\ outcome.pc = "gitPush"
    /\ \/ outcome' = [Called("push") EXCEPT !.pc = "updated"]
       \/ outcome' = [Called("push") EXCEPT !.pc = "thrown"]
    /\ UNCHANGED <<queueVars, classVars, given>>

PublishNext ==
    \/ Generate
    \/ GenerateAgain
    \/ EnsureRepo
    \/ CreateEpisodeFile
    \/ GitAdd
    \/ GitStatus
    \/ GitCommit
    \/ GitPush

PublishSpec == PublishInit /\ [][PublishNext]_vars


(***************************************************************************)
(* slugify on its own, applied once and once more to its own result, for   *)
(* every title of at most MaxTitleLen characters over letters, accented    *)
(* letters, a digit, white space, the hyphen and punctuation.              *)
(***************************************************************************)
TitleChars == {"a", "B", "e_acute", "E_ACUTE", "o_uml", "1", " ", "-", "!"}

Titles == UNION {[1..n -> TitleChars] : n \in 0..MaxTitleLen}

SlugInit ==
    /\ QueueInit
    /\ fname = NoFile
    /\ verdict = Unclassified
    /\ given \in Titles
    /\ outcome = NoOutcome

Slugify ==
    /\ outcome.state = "none"
    /\ outcome' = [state |-> "slug", slug |-> slugify(given)]
    /\ UNCHANGED <<queueVars, classVars, given>>

SlugifyAgain ==
    /\ outcome.state = "slug"
    /\ outcome' = [state |-> "slugOfSlug", slug |-> outcome.slug, again |-> slugify(outcome.slug)]
    /\ UNCHANGED <<queueVars, classVars, given>>

SlugNext == Slugify \/ SlugifyAgain

SlugSpec == SlugInit /\ [][SlugNext]_vars


(***************************************************************************)
(* TranscriptionService.extractSpeakers on its own, for every list of at   *)
(* most MaxUtterances utterances of three speakers, and for no list.       *)
(***************************************************************************)
SpeakerLabels == {"A", "B", "C"}

\* start and end are milliseconds in the transcript; scaled down.
Spans == {[start |-> 0, end |-> 1, text |-> "un"],
          [start |-> 1, end |-> 3, text |-> "deux"],
          [start |-> 3, end |-> 4, text |-> "trois"]}

Utterances ==
    {[speaker |-> s, start |-> p.start, end |-> p.end, text |-> p.text] :
        s \in SpeakerLabels, p \in Spans}

UtteranceLists == UNION {[1..n -> Utterances] : n \in 0..MaxUtterances}

\* utterances.forEach(...) (lines 72-90) over a Map, which keeps its entries
\* in the order of insertion.
RECURSIVE forEachUtterance(_, _)
forEachUtterance(utterances, speakers) ==
    IF utterances = <<>> THEN speakers
    ELSE LET utterance == Head(utterances)
             has  == \E i \in 1..Len(speakers) : speakers[i].id = utterance.speaker
             with == IF has THEN speakers
                     ELSE Append(speakers, [id |-> utterance.speaker, totalTime |-> 0,
                                            segments |-> <<>>])
             next == [i \in 1..Len(with) |->
                        IF with[i].id = utterance.speaker
                        THEN [with[i] EXCEPT
                                 !.totalTime = @ + (utterance.end - utterance.start),
                                 !.segments = Append(@, [start |-> utterance.start,
                                                         end |-> utterance.end,
                                                         text |-> utterance.text])]
                        ELSE with[i]]
         IN  forEachUtterance(Tail(utterances), next)

\* Mutant: an element is put in front of the elements it compares equal to.
RECURSIVE sortByTotalTime_TiesReversed(_)
sortByTotalTime_TiesReversed(list) ==
    IF list = <<>> THEN <<>>
    ELSE LET sorted == sortByTotalTime_TiesReversed(SubSeq(list, 1, Len(list) - 1))
             b      == list[Len(list)]
             before == {i \in 1..Len(sorted) : sorted[i].totalTime > b.totalTime}
             n      == Cardinality(before)
         IN  SubSeq(sorted, 1, n) \o <<b>> \o SubSeq(sorted, n + 1, Len(sorted))

\* Array.prototype.sort((a, b) => b.totalTime - a.totalTime) (line 92): the
\* sort is stable, so an element goes behind every element that it does not
\* come strictly before.
RECURSIVE sortByTotalTime(_)
sortByTotalTime(list) ==
    IF list = <<>> THEN <<>>
    ELSE LET sorted == sortByTotalTime(SubSeq(list, 1, Len(list) - 1))
             b      == list[Len(list)]
             before == {i \in 1..Len(sorted) : sorted[i].totalTime >= b.totalTime}
             n      == Cardinality(before)
         IN  SubSeq(sorted, 1, n) \o <<b>> \o SubSeq(sorted, n + 1, Len(sorted))

extractSpeakers(utterances) ==
    IF utterances.kind = "undefined" THEN <<>>
    ELSE sortByTotalTime(forEachUtterance(utterances.items, <<>>))

SpeakerInit ==
    /\ QueueInit
    /\ fname = NoFile
    /\ verdict = Unclassified
    /\ given \in {[kind |-> "undefined"]} \cup {[kind |-> "array", items |-> u] : u \in UtteranceLists}
    /\ outcome = NoOutcome

ExtractSpeakers ==
    /\ outcome.state = "none"
    /\ outcome' = [state |-> "speakers", speakers |-> extractSpeakers(given)]
    /\ UNCHANGED <<queueVars, classVars, given>>

SpeakerNext == ExtractSpeakers

SpeakerSpec == SpeakerInit /\ [][SpeakerNext]_vars


(***************************************************************************)
(* The name of the episode file on its own: the name createEpisodeFile     *)
(* writes to, and the name processItem then hands to logRepositoryUpdate,  *)
(* for every title of at most MaxTitleLen characters.                      *)
(***************************************************************************)
MdExt == <<".", "m", "d">>

\* Mutant: the episode number is not padded.
episodeFilename_Unpadded(extractedContent) ==
    ToChars(extractedContent.episodeNumber) \o <<"-">> \o slugify(extractedContent.title)
        \o MdExt

\* createEpisodeFile lines 59-63:
\* `${episodeNumber.toString().padStart(2, '0')}-${this.slugify(title)}.md`.
episodeFilename(extractedContent) ==
    Pad2(extractedContent.episodeNumber) \o <<"-">> \o slugify(extractedContent.title)
        \o MdExt

IsAlnum(c) == (\E i \in 1..26 : Lowers[i] = c) \/ IsDigit(c)

\* .replace(/[^a-z0-9]+/g, '-'): every run of other characters becomes one hyphen.
RECURSIVE runsToHyphen(_)
runsToHyphen(text) ==
    IF text = <<>> THEN text
    ELSE IF ~IsAlnum(Head(text))
         THEN IF Len(text) > 1 /\ ~IsAlnum(text[2]) THEN runsToHyphen(Tail(text))
              ELSE <<"-">> \o runsToHyphen(Tail(text))
    ELSE <<Head(text)>> \o runsToHyphen(Tail(text))

\* processItem line 131: the episodeFile of the repository-update record.
episodeFile(extractedContent) ==
    Pad2(extractedContent.episodeNumber) \o <<"-">>
        \o runsToHyphen(toLowerCase(extractedContent.title)) \o MdExt

NameEpisodes == {0, 6, 12, 123, Null}

NameInit ==
    /\ QueueInit
    /\ fname = NoFile
    /\ verdict = Unclassified
    /\ given \in [episodeNumber : NameEpisodes, title : Titles]
    /\ outcome = NoOutcome

\* createEpisodeFile: episodeNumber.toString() of null throws.
WriteEpisodeFile ==
    /\ outcome.state = "none"
    /\ outcome' = IF given.episodeNumber = Null THEN [state |-> "thrown"]
                  ELSE [state |-> "written", filename |-> episodeFilename(given)]
    /\ UNCHANGED <<queueVars, classVars, given>>

\* if (episodeNumber) await this.dataLogger.logRepositoryUpdate(...), for a job
\* whose own episode number is the one of the content.
LogRepositoryUpdate ==
    /\ outcome.state = "written"
    /\ Truthy(given.episodeNumber)
    /\ outcome' = [state |-> "logged", filename |-> outcome.filename,
                   episodeFile |-> episodeFile(given)]
    /\ UNCHANGED <<queueVars, classVars, given>>

NameNext == WriteEpisodeFile \/ LogRepositoryUpdate

NameSpec == NameInit /\ [][NameNext]_vars


(***************************************************************************)
(* The watcher on its own.  checkForNewFiles is called by the scheduler    *)
(* and by POST /trigger, so two passes can be in flight; a pass is         *)
(* suspended once, at await this.drive.files.list(...), and from the       *)
(* response to the assignment of lastCheckTime nothing else runs (the      *)
(* awaits of addToQueue resolve without input or output).  `outcome` holds *)
(* the watcher: the clock (Date.now(), which is also the modifiedTime      *)
(* clock of the folder), lastCheckTime, the modifiedTime of each file of    *)
(* the folder (Null: not there), the passes, and one entry per addToQueue  *)
(* call: the file, the modifiedTime seen, and the id returned.  The jobs   *)
(* are enqueued in the queue of the model; no job advances here.           *)
(***************************************************************************)
WatchFiles == {Cosmic06, Cosmic00}

Passes == {"schedule", "trigger"}

NoListing == [f \in WatchFiles |-> Null]

IdlePass == [pc |-> "idle", files |-> NoListing]

\* The constructor: lastCheckTime is an hour before the start.
Watching ==
    [state         |-> "watching",
     now           |-> 1,
     lastCheckTime |-> 0,
     modified      |-> NoListing,
     passes        |-> [p \in Passes |-> IdlePass],
     calls         |-> <<>>]

WatchInit ==
    /\ QueueInit
    /\ fname = NoFile
    /\ verdict = Unclassified
    /\ given = NoArguments
    /\ outcome = Watching

\* A millisecond passes.
Tick ==
    /\ outcome.now < MaxClock
    /\ outcome' = [outcome EXCEPT !.now = @ + 1]
    /\ UNCHANGED <<queueVars, classVars, given>>

\* A file is put into the watched folder, or replaced there.
Modify(f) ==
    /\ outcome.modified[f] # outcome.now
    /\ outcome' = [outcome EXCEPT !.modified[f] = outcome.now]
    /\ UNCHANGED <<queueVars, classVars, given>>

\* The listing request of a pass is answered with the folder as it is.
ListFiles(p) ==
    /\ outcome.passes[p].pc = "idle"
    /\ outcome' = [outcome EXCEPT !.passes[p] = [pc |-> "listed", files |-> outcome.modified]]
    /\ UNCHANGED <<queueVars, classVars, given>>

\* fileModified > this.lastCheckTime and matchesNamingPattern(file.name)
toEnqueue(files, lastCheckTime) ==
    {f \in WatchFiles : /\ files[f] # Null
                        /\ files[f] > lastCheckTime
                        /\ matchesNamingPattern(f)}

\* orderBy: 'modifiedTime desc'; the order of files of equal time is the
\* service's choice.
ListOrders(files, chosen) ==
    {o \in [1..Cardinality(chosen) -> chosen] :
        /\ \A i \in DOMAIN o : \A j \in DOMAIN o : i # j => o[i] # o[j]
        /\ \A i \in DOMAIN o : \A j \in DOMAIN o : i < j => files[o[i]] >= files[o[j]]}

\* Mutant: a file that has a job which is not finished is not enqueued again.
RECURSIVE enqueueAll_SkipsKnownFile(_, _, _)
enqueueAll_SkipsKnownFile(st, order, tag) ==
    IF order = <<>> THEN st
    ELSE enqueueAll_SkipsKnownFile(
             IF \E j \in 1..Len(st.jobs) : st.jobs[j].file = Head(order)
             THEN st ELSE addToQueue(st, Head(order), tag),
             Tail(order), tag)

\* for (const file of files) { ... await this.processingQueue.addToQueue(file) }
RECURSIVE enqueueAll(_, _, _)
enqueueAll(st, order, tag) ==
    IF order = <<>> THEN st
    ELSE enqueueAll(addToQueue(st, Head(order), tag), Tail(order), tag)

\* id: Date.now() (processingQueue.js line 24), one per call of the pass.
callsOf(order, files, now) ==
    [i \in 1..Len(order) |-> [file |-> order[i], modifiedTime |-> files[order[i]], id |-> now]]

\* checkForNewFiles from the answer of the listing to its end (lines 51-80):
\* an empty listing returns before lastCheckTime is assigned.
CheckFiles(p) ==
    /\ outcome.passes[p].pc = "listed"
    /\ LET files  == outcome.passes[p].files
           chosen == toEnqueue(files, outcome.lastCheckTime)
       IN  IF \A f \in WatchFiles : files[f] = Null
           THEN /\ outcome' = [outcome EXCEPT !.passes[p] = IdlePass]
                /\ UNCHANGED queueVars
           ELSE /\ Len(jobs) + Cardinality(chosen) <= MaxJobs
                /\ \E order \in ListOrders(files, chosen) :
                      /\ Become(enqueueAll(Here, order, podcastName))
                      /\ outcome' = [outcome EXCEPT
                                        !.passes[p] = IdlePass,
                                        !.lastCheckTime = outcome.now,
                                        !.calls = @ \o callsOf(order, files, outcome.now)]
                /\ UNCHANGED <<podcastName, store>>
    /\ UNCHANGED <<classVars, given>>

WatchNext ==
    \/ Tick
    \/ \E f \in WatchFiles : Modify(f)
    \/ \E p \in Passes : ListFiles(p)
    \/ \E p \in Passes : CheckFiles(p)

WatchSpec == WatchInit /\ [][WatchNext]_vars


(***************************************************************************)
(* The episode directory of one episode on its own, over MaxRuns runs of   *)
(* processItem for it: the data logger calls in the order processItem      *)
(* makes them, each run ending after its last stage or when a stage fails. *)
(* The record is the one of `store`; `outcome.artifacts` is the set of     *)
(* stages whose payload files are in the directory.                        *)
(***************************************************************************)
LoggedEpisode == CHOOSE n \in EpisodeNumbers : \A m \in EpisodeNumbers : n <= m

\* The order of the data logger calls of a run (processItem lines 87-134).
LogOrder == <<"download", "transcription", "extraction", "upload", "repository">>

LogIndex(f) == CHOOSE i \in 1..Len(LogOrder) : LogOrder[i] = f

\* What follows the data logger call of step f in a run that goes on.
NextLog(f) == IF f = "repository" THEN "finalizeOk" ELSE LogOrder[LogIndex(f) + 1]

\* fs.writeFile of the payload files of a log operation (lines 276-299,
\* 314-340, 358-362, 380-384); updateStep('download') writes no payload.
writePayload(artifacts, f, ok) ==
    IF ok /\ f # "download" THEN artifacts \cup {f} ELSE artifacts

\* initializeEpisode (lines 243-269) as far as the directory goes: ensureDir
\* and the metadata file; what is in the directory stays.
initializeDir(artifacts) == artifacts

LoggerInit ==
    /\ QueueInit
    /\ fname = NoFile
    /\ verdict = Unclassified
    /\ given = NoArguments
    /\ outcome = [state |-> "logging", pc |-> "idle", runs |-> 0, artifacts |-> {}]

\* await this.dataLogger.initializeEpisode(episodeNumber, ...)
StartRun ==
    /\ outcome.state = "logging"
    /\ outcome.pc = "idle"
    /\ outcome.runs < MaxRuns
    /\ \E ok \in BOOLEAN :
          /\ store' = initializeEpisode(store, LoggedEpisode, ok)
          /\ outcome' = [outcome EXCEPT !.pc = "download", !.runs = @ + 1,
                                        !.artifacts = IF ok THEN initializeDir(@) ELSE @]
    /\ UNCHANGED <<podcastName, jobs, queue, processing, loops, classVars, given>>

\* The stage has completed: updateStep('download') or the log operation.
LogStage(f) ==
    /\ outcome.state = "logging"
    /\ outcome.pc = f
    /\ \E ok \in BOOLEAN :
          /\ store' = IF f = "download" THEN updateStep(store, LoggedEpisode, f, ok)
                      ELSE logPayload(store, LoggedEpisode, f, ok)
          /\ outcome' = [outcome EXCEPT !.pc = NextLog(f),
                                        !.artifacts = writePayload(@, f, ok)]
    /\ UNCHANGED <<podcastName, jobs, queue, processing, loops, classVars, given>>

\* The stage has thrown: the catch block of processItem is next.
StageFails(f) ==
    /\ outcome.state = "logging"
    /\ outcome.pc = f
    /\ outcome' = [outcome EXCEPT !.pc = "finalizeFail"]
    /\ UNCHANGED <<queueVars, classVars, given>>

\* await this.dataLogger.finalizeEpisode(episodeNumber, status, message)
FinalizeRun ==
    /\ outcome.state = "logging"
    /\ outcome.pc \in {"finalizeOk", "finalizeFail"}
    /\ \E ok \in BOOLEAN : \E m \in Messages :
          store' = finalizeEpisode(store, LoggedEpisode,
                                   IF outcome.pc = "finalizeOk" THEN "completed" ELSE "failed",
                                   IF outcome.pc = "finalizeOk" THEN NoMsg ELSE m, ok)
    /\ outcome' = [outcome EXCEPT !.pc = "idle"]
    /\ UNCHANGED <<podcastName, jobs, queue, processing, loops, classVars, given>>

LoggerNext ==
    \/ StartRun
    \/ \E f \in Flags : LogStage(f)
    \/ \E f \in Flags : StageFails(f)
    \/ FinalizeRun

LoggerSpec == LoggerInit /\ [][LoggerNext]_vars


(***************************************************************************)
TestTags == {Cosmic, <<"C","O","S","M","I","C">>, Podcast, Random}

TestDigits == {<<"6">>, <<"0","6">>, <<"0","0">>, <<"1","2","3">>, <<"0","x">>}

TestSuffixes == {<<>>, NoMix, <<"-","N","o","-","M","i","x">>, <<"-","m","i","x">>}

TestExts == {<<"m","p","3">>, <<"F","L","A","C">>, <<"w","a","v">>, <<"m","4","a">>,
             <<"o","g","g">>, <<"m","p","3","x">>}

TestNames == {Name(t, d, x, e) : t \in TestTags, d \in TestDigits, x \in TestSuffixes,
                                 e \in TestExts}

ClassifierInit ==
    /\ QueueInit
    /\ fname \in TestNames
    /\ verdict = Unclassified
    /\ given = NoArguments
    /\ outcome = NoOutcome

Classify ==
    /\ verdict.state = "unclassified"
    /\ verdict' = [state         |-> "classified",
                   accepted      |-> matchesNamingPattern(fname),
                   episodeNumber |-> extractorEpisodeNumber(podcastName, fname)]
    /\ UNCHANGED <<podcastName, jobs, queue, processing, loops, store, fname, given, outcome>>

ClassifierSpec == ClassifierInit /\ [][Classify]_vars

(***************************************************************************)
(* The name derivation on its own: the name that findFullEpisodeFile       *)
(* searches the Drive folder for, for each test file name.                 *)
(***************************************************************************)
DeriveFullName ==
    /\ verdict.state = "unclassified"
    /\ verdict' = [state |-> "derived", baseFilename |-> baseFilename(fname)]
    /\ UNCHANGED <<podcastName, jobs, queue, processing, loops, store, fname, given, outcome>>

DeriveSpec == ClassifierInit /\ [][DeriveFullName]_vars

(***************************************************************************)
(* Properties.                                                             *)
(***************************************************************************)
Terminal == {"completed", "failed"}

JobIds == 1..Len(jobs)

\* The queueItem objects something still references.
Live == {j \in JobIds : jobs[j].file # NoFile}

StepOf(j, i) == jobs[j].steps[Stages[i]]

\* C1: jobs are processed in the order they were enqueued: a job that has
\* started processing has every job enqueued before it in a terminal status,
\* and the queue holds the waiting jobs in enqueue order.
C1_FifoOrder ==
    /\ \A a \in JobIds : \A b \in JobIds :
          (a < b /\ jobs[b].status # "queued") => jobs[a].status \in Terminal
    /\ \A i \in 1..Len(queue) : \A k \in 1..Len(queue) : i < k => queue[i] < queue[k]
    /\ \A i \in 1..Len(queue) : jobs[queue[i]].status = "queued"

C1_Witness ==
    /\ Len(jobs) = 3
    /\ jobs[1].status \in Terminal
    /\ jobs[2].status = "processing"
    /\ jobs[3].status = "queued"
    /\ queue = <<3>>

\* C2: at most one processQueue loop runs and at most one job is Processing.
C2_SingleWorker ==
    /\ Cardinality(loops) <= 1
    /\ Cardinality({j \in JobIds : jobs[j].status = "processing"}) <= 1

C2_Witness ==
    /\ Cardinality(loops) = 1
    /\ Len(queue) = 2
    /\ \E j \in JobIds : jobs[j].status = "processing"

\* C3: every enqueued job eventually reaches Completed or Failed, whatever
\* stage of an earlier job failed: again and again every job enqueued so far
\* is Completed or Failed (a job that is Completed or Failed stays so).
C3_EveryJobTerminates ==
    []<>(\A j \in 1..Len(jobs) : jobs[j].status \in Terminal)

C3_Witness ==
    \E a \in JobIds : \E b \in JobIds :
        /\ a < b
        /\ jobs[a].status = "failed"
        /\ jobs[b].status = "completed"

\* C4: a stage of a job has left Pending only if every earlier stage of the
\* job is Completed, and a Completed job has all five stages Completed.
C4_StagesInOrder ==
    \A j \in Live :
        /\ \A i \in 1..Len(Stages) :
              StepOf(j, i) # "pending" => \A k \in 1..(i - 1) : StepOf(j, k) = "completed"
        /\ jobs[j].status = "completed" =>
              \A i \in 1..Len(Stages) : StepOf(j, i) = "completed"

C4_Witness ==
    \E j \in Live : jobs[j].steps["repoUpdate"] = "in_progress"

\* C5 (as claimed): a failed job has the stage that failed marked Failed, every
\* earlier stage Completed and every later stage Pending.
C5_FailedStageMarkedFailed ==
    \A j \in Live :
        jobs[j].status = "failed" =>
            \E i \in 1..Len(Stages) :
                /\ StepOf(j, i) = "failed"
                /\ \A k \in 1..(i - 1) : StepOf(j, k) = "completed"
                /\ \A k \in (i + 1)..Len(Stages) : StepOf(j, k) = "pending"

\* A loop whose processItem call has returned with the job failed.
ReturnedFailed(l) == l.pc = "return" /\ jobs[l.item].status = "failed"

\* C6 (as claimed): when a job has failed and its episode number is resolved,
\* the EpisodeRecord is Failed and its error field is the captured message.
C6_FailureRecordedInEpisodeRecord ==
    \A l \in loops :
        (ReturnedFailed(l) /\ Truthy(l.ep)) =>
            /\ store[l.ep].status = "failed"
            /\ store[l.ep].error = l.err

\* C6 (amended): a stage failure sets the job status to Failed and starts no
\* later stage; for a resolved episode number finalize is called with Failed
\* and the captured message, and when the record exists and its read and write
\* succeed the record is Failed, with an error field equal to the message if the
\* message is not empty.
C6_FailureFinalizes ==
    \A l \in loops :
        /\ l.pc \in {"finalizeFail", "return"} /\ jobs[l.item].status = "failed" =>
              /\ jobs[l.item].error = l.err
              /\ \E i \in 1..Len(Stages) :
                    /\ StepOf(l.item, i) = "in_progress"
                    /\ \A k \in (i + 1)..Len(Stages) : StepOf(l.item, k) = "pending"
        /\ (ReturnedFailed(l) /\ Truthy(l.ep)) =>
              /\ l.finalized # "no"
              /\ (l.finalized = "ok" /\ store[l.ep].status # "none") =>
                    /\ store[l.ep].status = "failed"
                    /\ l.err # "" => store[l.ep].error = l.err

C6_Witness ==
    \E l \in loops :
        /\ ReturnedFailed(l)
        /\ Truthy(l.ep)
        /\ l.err = "E1"
        /\ jobs[l.item].steps["upload"] = "in_progress"
        /\ store[l.ep].status = "failed"
        /\ store[l.ep].error = "E1"

Unusable(text, episodeNumber) ==
    ~text.isJson \/ generateMarkdownThrows(SpreadResult(text, episodeNumber))

C8_MarkdownBeforePublish ==
    \A l \in loops : l.pc = "repoUpdate" => Len(l.content.markdownContent) > 0

C8_Witness ==
    \E l \in loops :
        /\ l.pc = "repoUpdate"
        /\ l.content.title = FallbackTitle(6)
        /\ Len(l.content.markdownContent) > 0

\* C9 (as claimed): the classifier accepts exactly the names of the form
\* <tag>-<two or more digits>[-no-mix].<ext>, case-insensitively, and yields
\* the integer value of the digit group.
C9_ClassifierAcceptsCandidateForm ==
    verdict.state = "classified" =>
        /\ verdict.accepted <=> IsCandidateForm(podcastName, fname)
        /\ verdict.accepted => verdict.episodeNumber = CandidateNumber(podcastName, fname)

\* C10 (as claimed): with PODCAST_NAME=cosmic only transcript files
\* cosmic-NN-no-mix.ext are enqueued, never cosmic-06.mp3 or random-file.mp3.
C10_OnlyTranscriptFilesEnqueued ==
    podcastName = Cosmic =>
        \A j \in Live :
            /\ IsTranscriptVariant(Cosmic, jobs[j].file)
            /\ jobs[j].file \notin {Cosmic06, RandomFile}

\* The awaits of processItem that call the EpisodeDataLogger.
LoggerPcs ==
    {"init", "logDownload", "logTranscript", "logExtracted", "logUpload", "logRepo",
     "finalizeOk", "finalizeFail"}

\* C11 (as claimed): when the Download stage of a job starts and the file name
\* yielded an episode number (00 included), the EpisodeRecord of that number
\* has status Processing and all five step flags false; a job without an
\* episode number is never at a data logger call.
C11_RecordInitializedBeforeDownload ==
    \A l \in loops :
        /\ (l.ep # Null /\ l.pc = "download") =>
              /\ l.ep \in DOMAIN store
              /\ store[l.ep].status = "processing"
              /\ \A f \in Flags : ~store[l.ep].steps[f]
        /\ l.ep = Null => l.pc \notin LoggerPcs

\* C12: the episodeNumber of an EpisodeRecord is the number its file name
\* yielded at initialization, whatever updateStep, the log operations and
\* finalizeEpisode have done to the record since.
C12_EpisodeNumberNeverChanges ==
    \A n \in DOMAIN store : store[n].status # "none" => store[n].episodeNumber = n

C12_Witness ==
    \E l \in loops :
        /\ l.pc = "findFull"
        /\ Truthy(l.ep)
        /\ l.content.episodeNumber = 99
        /\ store[l.ep].steps["extraction"]
        /\ store[l.ep].episodeNumber = l.ep

AllStagesCompleted(j) == \A i \in 1..Len(Stages) : StepOf(j, i) = "completed"

\* C13 (as claimed): a run of a job whose file name yielded an episode number
\* makes exactly one finalizeEpisode call: none has been made when the call
\* is about to be made, it is the 'completed' one exactly when all five
\* stages completed, and one has been made when processItem returns.
C13_FinalizedExactlyOnce ==
    \A l \in loops :
        /\ l.pc \in {"finalizeOk", "finalizeFail"} => l.finalized = "no"
        /\ l.pc = "finalizeOk" => AllStagesCompleted(l.item)
        /\ l.pc = "finalizeFail" => ~AllStagesCompleted(l.item)
        /\ l.finalized # "no" => l.pc \in {"cleanup", "return"}
        /\ (l.pc = "return" /\ l.ep # Null) => l.finalized # "no"

\* What processItem does when a data logger call has returned: the await it
\* reaches next and the stage it has set in progress on the way ("none": no
\* stage).  After logRepositoryUpdate it sets the job status to 'completed'.
AfterLogger ==
    [init          |-> [pc |-> "download",      stage |-> "download"],
     logDownload   |-> [pc |-> "transcription", stage |-> "transcription"],
     logTranscript |-> [pc |-> "extraction",    stage |-> "extraction"],
     logExtracted  |-> [pc |-> "findFull",      stage |-> "upload"],
     logUpload     |-> [pc |-> "repoUpdate",    stage |-> "repoUpdate"],
     logRepo       |-> [pc |-> "finalizeOk",    stage |-> "none"],
     finalizeOk    |-> [pc |-> "cleanup",       stage |-> "none"],
     finalizeFail  |-> [pc |-> "return",        stage |-> "none"]]

JobAfterLogger(job, pc) ==
    IF pc = "logRepo" THEN [job EXCEPT !.status = "completed"]
    ELSE IF AfterLogger[pc].stage = "none" THEN job
    ELSE [job EXCEPT !.steps[AfterLogger[pc].stage] = "in_progress"]

\* C14: a data logger call, whether its writes succeed or fail, is followed by
\* the same next await, the same stage set in progress and the same job
\* status: the outcome of a write decides nothing about the job.
C14_PersistenceFailureNeverPropagates ==
    [][\A l \in loops :
          l.pc \in LoggerPcs =>
              \/ l \in loops'
              \/ \E l2 \in loops' :
                    /\ l2.item = l.item
                    /\ l2.pc = AfterLogger[l.pc].pc
                    /\ jobs'[l.item] = JobAfterLogger(jobs[l.item], l.pc)]_vars

C14_Witness ==
    \E l \in loops :
        /\ l.pc = "return"
        /\ Truthy(l.ep)
        /\ jobs[l.item].status = "completed"
        /\ l.finalized = "io_error"
        /\ store[l.ep].status = "none"

JobStatusMoves ==
    {<<"queued", "processing">>, <<"processing", "completed">>, <<"processing", "failed">>}

StepMoves ==
    {<<"pending", "in_progress">>, <<"in_progress", "completed">>, <<"in_progress", "failed">>}

\* C15: in every step the status of a job stays or moves Queued -> Processing
\* -> Completed or Failed, and each stage of a job stays or moves Pending ->
\* InProgress -> Completed or Failed: nothing regresses and a terminal job
\* stays as it is.
C15_StatusNeverRegresses ==
    [][\A j \in JobIds :
          /\ \/ jobs'[j].status = jobs[j].status
             \/ <<jobs[j].status, jobs'[j].status>> \in JobStatusMoves
          /\ jobs'[j].file # NoFile =>
                \A s \in StageSet :
                    \/ jobs'[j].steps[s] = jobs[j].steps[s]
                    \/ <<jobs[j].steps[s], jobs'[j].steps[s]>> \in StepMoves]_vars

C15_Witness ==
    \E j \in Live :
        /\ jobs[j].status = "failed"
        /\ jobs[j].steps["download"] = "completed"
        /\ jobs[j].steps["transcription"] = "in_progress"
        /\ jobs[j].steps["extraction"] = "pending"

AllPending(job) == \A s \in StageSet : job.steps[s] = "pending"

\* C16 (as claimed): a step that creates a job creates exactly one, Queued with
\* all five steps Pending, at the tail of the queue, and changes no other job
\* and no running loop, whether the worker is idle or active.
C16_EnqueueLeavesJobQueued ==
    [][Len(jobs') # Len(jobs) =>
          LET n == Len(jobs) + 1
          IN  /\ Len(jobs') = n
              /\ jobs'[n].status = "queued"
              /\ AllPending(jobs'[n])
              /\ queue' = Append(queue, n)
              /\ \A j \in JobIds : jobs'[j] = jobs[j]
              /\ loops' = loops]_vars

\* C16 (amended): a step that creates a job creates exactly one and changes no
\* other job.  With the worker active the job is Queued with all five steps
\* Pending at the tail of the queue and the running loop is untouched.  With
\* the worker idle the queue is empty and stays empty: the job is dequeued at
\* once and is Processing, at the initializeEpisode call with all steps
\* Pending or at the download with Download InProgress.
C16_EnqueueAppendsOneJob ==
    [][Len(jobs') # Len(jobs) =>
          LET n == Len(jobs) + 1
          IN  /\ Len(jobs') = n
              /\ \A j \in JobIds : jobs'[j] = jobs[j]
              /\ processing'
              /\ IF processing
                 THEN /\ jobs'[n].status = "queued"
                      /\ AllPending(jobs'[n])
                      /\ queue' = Append(queue, n)
                      /\ loops' = loops
                 ELSE /\ queue = <<>> /\ queue' = <<>>
                      /\ loops = {}
                      /\ jobs'[n].status = "processing"
                      /\ \E l \in loops' :
                            /\ loops' = {l}
                            /\ l.item = n
                            /\ \/ l.pc = "init" /\ AllPending(jobs'[n])
                               \/ /\ l.pc = "download"
                                  /\ jobs'[n].steps =
                                        [NewItem(NoFile).steps EXCEPT !["download"] = "in_progress"]
             ]_vars

C16_Witness ==
    /\ Len(jobs) = 2
    /\ jobs[1].status = "processing"
    /\ jobs[1].steps["extraction"] = "in_progress"
    /\ jobs[2].status = "queued"
    /\ AllPending(jobs[2])
    /\ queue = <<2>>

\* The jobs that were enqueued and that no worker loop has dequeued yet.
NotYetDequeued == {j \in JobIds : jobs[j].status = "queued"}

\* C17: in every reachable state getStatus reports as queueLength the number
\* of jobs enqueued and not yet dequeued, a processing flag that is true
\* exactly when a dequeued job has not been handed back to the worker loop,
\* and as items one snapshot of each not yet dequeued job, in arrival order,
\* each with status Queued and all steps Pending, none Completed or Failed.
C17_StatusReportsTheQueue ==
    LET status == getStatus(Here)
    IN  /\ status.queueLength = Cardinality(NotYetDequeued)
        /\ Len(status.items) = status.queueLength
        /\ status.processing <=> loops # {}
        /\ \A l \in loops : jobs[l.item].status # "queued"
        /\ {status.items[i].id : i \in 1..Len(status.items)} = NotYetDequeued
        /\ \A i, k \in 1..Len(status.items) :
              i < k => status.items[i].id < status.items[k].id
        /\ \A i \in 1..Len(status.items) :
              /\ status.items[i].status = "queued"
              /\ status.items[i].status \notin Terminal
              /\ \A s \in StageSet : status.items[i].steps[s] = "pending"
              /\ status.items[i].filename = jobs[status.items[i].id].file

C17_Witness ==
    /\ getStatus(Here).queueLength = 2
    /\ getStatus(Here).processing
    /\ \E l \in loops : l.pc = "transcription"

\* C18: the queue status that GET /status returns is the status of the queue
\* the Drive watcher enqueues into: its queueLength counts the jobs not yet
\* dequeued and its processing flag is the worker's flag.
C18_StatusEndpointReflectsWatcherQueue ==
    /\ StatusEndpoint.queueLength = Cardinality(NotYetDequeued)
    /\ StatusEndpoint.processing = processing
    /\ StatusEndpoint = getStatus(Here)

\* The job of loop l was enqueued with a transcript-variant file.
OfTranscriptVariant(l) == IsTranscriptVariant(podcastName, jobs[l.item].file)

\* C19: the step that ends the full file lookup of a transcript-variant job
\* never fails the job when the file was not found or the lookup erred: the
\* job goes on to the upload call with the transcript file that was
\* downloaded; and when the upload call is reached after a lookup that found
\* the file, the path handed to it is the full file's if that was downloaded.
C19_LookupNeverFailsTheJob ==
    [][\A l \in loops : \A l2 \in loops' :
          (/\ l.pc = "findFull"
           /\ l2.item = l.item
           /\ l2.pc # "findFull"
           /\ OfTranscriptVariant(l))
          => /\ l2.lookup \in {"notFound", "error"} =>
                  /\ jobs'[l.item].status = "processing"
                  /\ jobs'[l.item].steps["upload"] = "in_progress"
                  /\ l2.pc = "uploadFiles"
                  /\ l2.path = "transcript"
             /\ (l2.lookup = "found" /\ l2.pc = "uploadFiles") =>
                  l2.path \in {"full", "transcript"}]_vars

\* The name with the variant suffix, which follows the digit group, cut out.
SuffixRemoved(tag, filename) ==
    LET p == Len(tag) + 2 + DigitRun(filename, Len(tag) + 2)
    IN  SubSeq(filename, 1, p - 1) \o SubSeq(filename, p + Len(NoMix), Len(filename))

\* C20: for every transcript-variant file name the classifier accepts, in
\* whatever letter case, the full-variant name derived from it is the name
\* with the variant suffix removed, and is itself a full-variant name.
C20_DerivedNameIsFullVariant ==
    (verdict.state = "derived" /\ IsTranscriptVariant(podcastName, fname)) =>
        /\ verdict.baseFilename = SuffixRemoved(podcastName, fname)
        /\ IsCandidateForm(podcastName, verdict.baseFilename)
        /\ ~IsTranscriptVariant(podcastName, verdict.baseFilename)

\* C21: once the publish stage has written the document, neither placeholder
\* occurs anywhere in the written text, whatever the extracted content and
\* the upload result: the resolved URL and the estimated size stand in
\* their place.
C21_NoPlaceholderAfterPublish ==
    (outcome.state = "generated" /\ outcome.written # NotWritten) =>
        /\ ~Occurs(outcome.written, UrlPlaceholder)
        /\ ~Occurs(outcome.written, SizePlaceholder)
        /\ Occurs(outcome.written, given.uploadedUrls.audioUrl)

\* The header block of a document: the fields in their order, each after its
\* label, in the quoted form of generateMarkdown or the plain form of the
\* fallback content.
HeaderBlock(quoted, title, date, duration, episodeNumber) ==
    (IF quoted THEN <<"---\ntitle: \"">> ELSE <<"---\ntitle: ">>) \o title
        \o (IF quoted THEN <<"\"\naudioUrl: \"">> ELSE <<"\naudioUrl: \"">>)
        \o <<"TO_BE_REPLACED_WITH_R2_URL">>
        \o (IF quoted THEN <<"\"\npubDate: \"">> ELSE <<"\"\npubDate: ">>) \o <<date>>
        \o (IF quoted THEN <<"\"\nduration: \"">> ELSE <<"\nduration: ">>) \o duration
        \o (IF quoted THEN <<"\"\nsize: ">> ELSE <<"\nsize: ">>)
        \o <<"TO_BE_CALCULATED">>
        \o <<"\ncover: \"/images/ep">> \o ToChars(episodeNumber)
        \o <<".png\"\nexplicit: true\nepisode: ">> \o ToChars(episodeNumber)
        \o <<"\nseason: 1\nepisodeType: full\n---\n\n# ">>

StartsWith(text, prefix) ==
    Len(text) >= Len(prefix) /\ SubSeq(text, 1, Len(prefix)) = prefix

\* The content came from createFallbackContent.
IsFallback(content) == content.title = FallbackTitle(content.episodeNumber)

\* C22: every document produced at generation time, by generateMarkdown and by
\* the fallback content, starts with the header block: title, the audio
\* placeholder verbatim, publish date, duration, the size placeholder
\* verbatim, cover path keyed by episode number, episode number, season, type.
C22_HeaderCarriesPlaceholders ==
    outcome.state = "generated" =>
        LET content == outcome.content
            text    == content.markdownContent
        IN  /\ Occurs(text, "TO_BE_REPLACED_WITH_R2_URL")
            /\ Occurs(text, "TO_BE_CALCULATED")
            /\ StartsWith(text,
                  HeaderBlock(~IsFallback(content), TitleText(content.title), outcome.date,
                              IF content.duration # <<>> THEN content.duration
                              ELSE <<"0:00:00">>,
                              content.episodeNumber))

C22_Witness ==
    /\ outcome.state = "generated"
    /\ given.text = JsonFull
    /\ given.episodeNumber = 6
    /\ ~IsFallback(outcome.content)
    /\ Occurs(outcome.content.markdownContent, "TO_BE_CALCULATED")

\* The pieces of `text` that are one of `keys`, in the order they occur.
Picked(text, keys) ==
    LET IsKey(piece) == piece \in keys
    IN  SelectSeq(text, IsKey)

Range(seq) == {seq[i] : i \in 1..Len(seq)}

\* C23: the generated document has the guest-mix section iff guests is
\* non-empty, the track table iff tracks is non-empty, the events section iff
\* events is non-empty and the opening-monologue block iff a monologue is
\* present; the rows of each section are the entries in input order.
C23_SectionsIffPresent ==
    outcome.state = "generated" =>
        LET content == outcome.content
            text    == content.markdownContent
            artists == [i \in 1..Len(content.tracks) |-> content.tracks[i].artist]
            guests  == [i \in 1..Len(content.guests) |-> content.guests[i].name]
            events  == [i \in 1..Len(content.events) |-> content.events[i].name]
        IN  /\ Occurs(text, "## Guest Mix\n\n") <=> Len(content.guests) > 0
            /\ Occurs(text, "## Morceaux mentionnes\n\n| Artiste | Morceau | Info | Lien YouTube |\n")
                  <=> Len(content.tracks) > 0
            /\ Occurs(text, "## Evenements mentionnes\n\n") <=> Len(content.events) > 0
            /\ Occurs(text, "## Le monologue de Jerome\n\n> ") <=> content.openingMonologue # <<>>
            /\ Picked(text, Range(artists)) = artists
            /\ Picked(text, Range(guests)) = guests
            /\ Picked(text, Range(events)) = events

C23_Witness ==
    /\ outcome.state = "generated"
    /\ given.text = JsonGuestsOnly
    /\ Len(outcome.content.guests) = 2
    /\ Occurs(outcome.content.markdownContent, "## Guest Mix\n\n")
    /\ ~Occurs(outcome.content.markdownContent, "## Evenements mentionnes\n\n")

\* C24: the document is a function of the extracted content alone: generating
\* it once more from the same extractor answer, on whatever day, gives the
\* same text.
C24_GenerationIsDeterministic ==
    (outcome.state = "generated" /\ outcome.again # NotWritten) =>
        outcome.again = outcome.content.markdownContent

\* C25: slugify is idempotent: the slug of a slug is that slug.
C25_SlugifyIdempotent ==
    outcome.state = "slugOfSlug" => outcome.again = outcome.slug

C25_Witness ==
    /\ outcome.state = "slugOfSlug"
    /\ given = <<"B", " ", "-">>
    /\ outcome.slug = <<"b", "-">>

\* The accented letters of the model and the Latin letter each is built on.
BaseLetter ==
    [c \in {"e_acute", "E_ACUTE", "o_uml"} |-> IF c = "o_uml" THEN "o" ELSE "e"]

\* C26: every accented Latin letter of the title, lower or upper case, is
\* folded to its base letter, which therefore occurs in the slug; none is
\* dropped.
C26_AccentsFolded ==
    outcome.state = "slug" =>
        /\ \A i \in 1..Len(given) :
              given[i] \in DOMAIN BaseLetter => Occurs(outcome.slug, BaseLetter[given[i]])
        /\ Len(SelectSeq(outcome.slug, LAMBDA c : \E i \in 1..26 : Lowers[i] = c))
              >= Len(SelectSeq(given, LAMBDA c : c \in DOMAIN BaseLetter))

\* How often the git call `name` has been made.
Count(name) == Len(Picked(outcome.calls, {name}))

\* C27: the publish stage commits exactly when the status shows pending
\* changes, once, and pushes once, straight after the commit has returned.
\* With no pending changes neither commit nor push is called and the stage
\* succeeds with the status call as its last; with pending changes a stage
\* that succeeds has made one commit followed by one push.
C27_CommitsOnlyPendingChanges ==
    outcome.state = "generated" =>
        /\ Count("commit") <= 1
        /\ Count("push") <= 1
        /\ outcome.pending = "no" =>
              /\ outcome.pc = "updated"
              /\ outcome.calls = <<"add", "status">>
        /\ outcome.pending = "yes" =>
              /\ outcome.pc = "gitCommit" <=> Count("commit") = 0
              /\ outcome.pc = "updated" => outcome.calls = <<"add", "status", "commit", "push">>
              /\ outcome.pc = "gitPush" => outcome.calls = <<"add", "status", "commit">>
        /\ outcome.pending = "unknown" => Count("commit") = 0 /\ Count("push") = 0
        /\ Count("push") = 1 =>
              /\ outcome.pending = "yes"
              /\ outcome.calls = <<"add", "status", "commit", "push">>

C27_Witness ==
    /\ outcome.state = "generated"
    /\ outcome.pc = "updated"
    /\ outcome.pending = "no"
    /\ outcome.written # NotWritten
    /\ outcome.calls = <<"add", "status">>

\* C28: the transcription stage never blocks indefinitely.  A job waits for
\* its transcript through at most PollCeiling further polls; each step at the
\* stage either polls once more, below the ceiling, or leaves the stage; a
\* step that leaves it without a transcript (the ceiling is reached, the
\* service reports an error) fails the stage: the job is Failed, with
\* Transcription still in progress and no later stage begun; and when
\* processItem returns from a failed job the worker takes the next queued job.
C28_TranscriptionNeverBlocks ==
    [][\A l \in loops :
          /\ l.polls <= PollCeiling
          /\ l.pc # "transcription" => l.polls = 0
          /\ \A l2 \in loops' :
                (l.pc = "transcription" /\ l2.item = l.item /\ l2 # l) =>
                   /\ l2.pc = "transcription" =>
                         l2.polls = l.polls + 1 /\ l.polls < PollCeiling
                   /\ jobs'[l.item].steps["transcription"] # "completed" =>
                         /\ l2.pc \in {"transcription", "finalizeFail", "return"}
                         /\ l2.pc # "transcription" =>
                               /\ jobs'[l.item].status = "failed"
                               /\ jobs'[l.item].error = l2.err
                               /\ jobs'[l.item].steps["transcription"] = "in_progress"
                               /\ jobs'[l.item].steps["extraction"] = "pending"
          /\ (l.pc = "return" /\ jobs[l.item].status = "failed" /\ l \notin loops') =>
                IF queue = <<>> THEN loops' = {} /\ ~processing'
                ELSE /\ queue' = Tail(queue)
                     /\ jobs'[Head(queue)].status = "processing"
                     /\ \E l2 \in loops' : l2.item = Head(queue)
      ]_vars

\* A job whose transcript was not ready when the ceiling was reached, with
\* another job waiting behind it.
C28_Witness ==
    /\ queue # <<>>
    /\ \E l \in loops :
          /\ l.pc = "transcription"
          /\ l.polls = PollCeiling

\* A job that has left Queued is never Queued again and never back in the
\* queue.
NeverRequeued ==
    \A j \in 1..Len(jobs) :
        jobs[j].status # "queued" =>
            /\ jobs'[j].status # "queued"
            /\ \A k \in 1..Len(queue') : queue'[k] # j

\* A stage of a job is begun from Pending only, and does not return to Pending.
StageBegunOnce ==
    \A j \in 1..Len(jobs) : \A s \in StageSet :
        /\ (jobs'[j].steps[s] = "in_progress" /\ jobs[j].steps[s] # "in_progress")
              => jobs[j].steps[s] = "pending"
        /\ jobs[j].steps[s] # "pending" => jobs'[j].steps[s] # "pending"

\* findFullEpisodeFile has come back with something else than the full file:
\* with the job's own file, which it has downloaded once more, or with the
\* error of that download.
DownloadedAgain ==
    \E l \in loops : \E m \in loops' :
        /\ l.pc = "findFull"
        /\ m.item = l.item
        /\ m.pc # "findFull"
        /\ m.path # "full"

\* C29 (as claimed): a job is dequeued and processed at most once and a Failed
\* job is never put back in the queue, each stage of a job is started at most
\* once, and the file of a job is downloaded at most once.
C29_NoAutomaticRetry ==
    [][NeverRequeued /\ StageBegunOnce /\ ~DownloadedAgain]_vars

\* The step in which the cleanup call of loop l returns.
CleanupReturns(l, m) == l.pc = "cleanup" /\ m.item = l.item /\ m.pc = "return"

\* C30 (as claimed): when processItem is about to return, whether the job is
\* Completed or Failed, none of the files the job downloaded is left in the
\* scratch directory; and the cleanup call changes neither the job status nor
\* the EpisodeRecords.
C30_ScratchFilesRemoved ==
    [][/\ \A m \in loops' : m.pc = "return" => m.scratch = {}
       /\ \A l \in loops : \A m \in loops' :
             CleanupReturns(l, m) =>
                 /\ jobs'[l.item].status = jobs[l.item].status
                 /\ store' = store]_vars

\* The utterances of speaker s, in the order of the transcript.
UtterancesOf(s) == SelectSeq(given.items, LAMBDA u : u.speaker = s)

RECURSIVE SpokenTime(_)
SpokenTime(utterances) ==
    IF utterances = <<>> THEN 0
    ELSE (Head(utterances).end - Head(utterances).start) + SpokenTime(Tail(utterances))

FirstAppearance(s) ==
    CHOOSE i \in 1..Len(given.items) :
        /\ given.items[i].speaker = s
        /\ \A k \in 1..(i - 1) : given.items[k].speaker # s

\* C31: extractSpeakers returns one entry per distinct speaker, whose
\* totalTime is the sum of end - start over the speaker's utterances and
\* whose segments are those utterances in order; the entries are ranked by
\* totalTime descending, ties in the order of first appearance.
C31_SpeakersRankedStably ==
    (outcome.state = "speakers" /\ given.kind = "array") =>
        LET r == outcome.speakers
        IN  /\ {r[i].id : i \in 1..Len(r)} =
                  {given.items[k].speaker : k \in 1..Len(given.items)}
            /\ \A i \in 1..Len(r) : \A j \in 1..Len(r) : i # j => r[i].id # r[j].id
            /\ \A i \in 1..Len(r) :
                  LET own == UtterancesOf(r[i].id)
                  IN  /\ r[i].totalTime = SpokenTime(own)
                      /\ r[i].segments = [k \in 1..Len(own) |->
                                            [start |-> own[k].start, end |-> own[k].end,
                                             text |-> own[k].text]]
            /\ \A i \in 1..Len(r) : \A j \in 1..Len(r) :
                  i < j =>
                      \/ r[i].totalTime > r[j].totalTime
                      \/ /\ r[i].totalTime = r[j].totalTime
                         /\ FirstAppearance(r[i].id) < FirstAppearance(r[j].id)

\* Three speakers, the last two ranked with equal times, the first of the
\* ranking not the first to speak.
C31_Witness ==
    /\ outcome.state = "speakers"
    /\ given.kind = "array"
    /\ Len(outcome.speakers) = 3
    /\ outcome.speakers[2].totalTime = outcome.speakers[3].totalTime
    /\ outcome.speakers[1].id # given.items[1].speaker

\* C32: the file the publish stage writes is named by the episode number in
\* decimal, with a zero in front of a single digit and no other padding, a
\* hyphen, slugify of the title and ".md".
C32_FileNamedByNumberAndSlug ==
    outcome.state \in {"written", "logged"} =>
        LET f == outcome.filename
            k == DigitRun(f, 1)
        IN  /\ k >= 2
            /\ ParseInt(SubSeq(f, 1, k)) = given.episodeNumber
            /\ (k > 2 => f[1] # "0")
            /\ SubSeq(f, k + 1, Len(f)) = <<"-">> \o slugify(given.title) \o MdExt

\* Episode 6 with a title of two words.
C32_Witness ==
    /\ outcome.state = "written"
    /\ given.episodeNumber = 6
    /\ outcome.filename = <<"0", "6", "-", "a", "-", "b", ".", "m", "d">>

\* C38 (as claimed): the episodeFile of the repository-update record is the
\* name of the file that was written.
C38_LoggedNameIsWrittenName ==
    outcome.state = "logged" => outcome.episodeFile = outcome.filename

\* The pass p finishes in this step.
PassEnds(p) == outcome.passes[p].pc = "listed" /\ outcome'.passes[p].pc = "idle"

\* C33: nothing de-duplicates at enqueue time: a pass gives a new job to
\* every file of its listing that matches the pattern and is newer than the
\* last check, whether or not the file already has a job, so that two jobs
\* of one file, neither finished, can exist.
C33_NothingDeduplicates ==
    [][\A p \in Passes :
          PassEnds(p) =>
              LET chosen == toEnqueue(outcome.passes[p].files, outcome.lastCheckTime)
              IN  /\ Len(jobs') = Len(jobs) + Cardinality(chosen)
                  /\ \A f \in chosen :
                        \E j \in (Len(jobs) + 1)..Len(jobs') :
                            /\ jobs'[j].file = f
                            /\ jobs'[j].status \in {"queued", "processing"}]_vars

\* Two passes have enqueued the same file, and the job of the first is still
\* being processed when the job of the second is queued behind it.
C33_Witness ==
    /\ outcome.state = "watching"
    /\ \E i \in 1..Len(jobs) : \E j \in 1..Len(jobs) :
          /\ i < j
          /\ jobs[i].file = jobs[j].file
          /\ extractEpisodeNumber(podcastName, jobs[i].file) = 6
          /\ jobs[i].status = "processing"
          /\ jobs[j].status = "queued"
          /\ outcome.calls[i].id # outcome.calls[j].id

\* C35 (as claimed): the ids that addToQueue has returned are all different.
C35_JobIdsUnique ==
    outcome.state = "watching" =>
        \A i \in 1..Len(outcome.calls) : \A j \in 1..Len(outcome.calls) :
            i # j => outcome.calls[i].id # outcome.calls[j].id

\* The file f, as it is now in the folder, has been handed to addToQueue.
Enqueued(f) ==
    \E i \in 1..Len(outcome.calls) :
        /\ outcome.calls[i].file = f
        /\ outcome.calls[i].modifiedTime = outcome.modified[f]

\* C40 (as claimed): a file of the folder that matches the pattern and has
\* not been enqueued since it was last modified is still newer than
\* lastCheckTime, so that the next pass enqueues it (lastCheckTime never
\* decreases).
C40_NoFileSkipped ==
    outcome.state = "watching" =>
        \A f \in WatchFiles :
            (/\ matchesNamingPattern(f)
             /\ outcome.modified[f] # Null
             /\ ~Enqueued(f)) => outcome.modified[f] > outcome.lastCheckTime

\* C34: in every state (control is with the event loop between two steps) in
\* which the queue holds a job, the busy flag is set and a run of processQueue
\* is suspended at one of its awaits or at its loop test.
C34_QueuedJobHasWorker ==
    Len(queue) > 0 => (processing /\ \E l \in loops : l.pc \in Continuations)

\* A job is queued while the worker is about to return from a job that has
\* failed, its last one when the other job was enqueued.
C34_Witness ==
    /\ Len(queue) = 1
    /\ \E l \in loops :
          /\ l.pc = "return"
          /\ jobs[l.item].status = "failed"
          /\ l.item = Len(jobs) - 1

\* The step flag of the EpisodeRecord that stands for stage s.
FlagOf(s) == IF s = "repoUpdate" THEN "repository" ELSE s

\* A run whose episode number is resolved has passed its initializeEpisode call.
Recording(l) == l.ep # Null /\ l.pc # "init"

\* In a run, a step flag of the record is true only if the stage is Completed.
FlagsFollowStages ==
    \A l \in loops :
        (Recording(l) /\ Truthy(l.ep)) =>
            \A s \in StageSet :
                store[l.ep].steps[FlagOf(s)] => jobs[l.item].steps[s] = "completed"

\* Within a run no step flag goes from true back to false.
FlagsStay ==
    \A l \in loops : \A m \in loops' :
        (Recording(l) /\ Truthy(l.ep) /\ m.item = l.item) =>
            \A f \in Flags : store[l.ep].steps[f] => store'[l.ep].steps[f]

\* A job that Completed with every data logger call succeeding has a record
\* with status Completed and the five flags true.
CompletedRecordIsWhole ==
    \A l \in loops :
        (/\ Recording(l)
         /\ l.pc \in {"cleanup", "return"}
         /\ jobs[l.item].status = "completed"
         /\ l.persisted) =>
            /\ Truthy(l.ep)
            /\ store[l.ep].status = "completed"
            /\ \A f \in Flags : store[l.ep].steps[f]

\* C36 (as claimed): at every point of a run a step flag of the EpisodeRecord
\* is true only if the stage has Completed, no flag goes from true back to
\* false within the run, and a job that Completes with no persistence failure
\* has a finalized record with status Completed and all five flags true.
C36_FlagsMirrorStages ==
    /\ [](FlagsFollowStages /\ CompletedRecordIsWhole)
    /\ [][FlagsStay]_vars

\* The run of loop l holds the content that extract returned.
HasContent(l) ==
    l.pc \in {"logExtracted", "findFull", "uploadFiles", "logUpload", "repoUpdate", "logRepo"}

\* C37 (as claimed): the episode number of the extracted content is the
\* number that the file name yielded for the run and its EpisodeRecord,
\* whatever text the extraction request returned.
C37_ContentNumberIsFileNumber ==
    \A l \in loops :
        (HasContent(l) /\ Truthy(l.ep)) =>
            /\ l.content.episodeNumber = l.ep
            /\ l.content.episodeNumber = extractorEpisodeNumber(podcastName, jobs[l.item].file)

\* C39 (as claimed): the payload files of a stage are in the episode
\* directory only if the step flag of the stage is true in the record.
C39_ArtifactsOnlyUnderTrueFlags ==
    outcome.state = "logging" =>
        \A f \in outcome.artifacts : store[LoggedEpisode].steps[f]

====
